---- MODULE Spec2Model ----
(***************************************************************************)
(* gtfs-sim: the GTFS loader (src/src/gtfs-loader.js), the calendar and    *)
(* position resolvers it exports, and the HTTP gateway and start-up        *)
(* sequence of src/src/server.js.                                          *)
(*                                                                         *)
(* Representation.                                                         *)
(*  - A JavaScript Map or Set is a sequence in insertion order: a Map is a *)
(*    sequence of [k, v] entries with distinct keys, a Set a sequence of   *)
(*    distinct elements.                                                   *)
(*  - A YYYYMMDD string is the tuple of its eight digits; strings are      *)
(*    compared lexicographically as JavaScript compares them.              *)
(*  - A HH:MM:SS string is the tuple <<h, m, s>> of its parsed parts.      *)
(*  - Coordinates are integers: latitudes are multiples of one grid unit   *)
(*    on a single meridian, where the haversine distance of two points is  *)
(*    proportional to the difference of their latitudes. Distances are     *)
(*    counted in grid units. Fractions are exact rationals [n, d].         *)
(*  - The frontend (src/client/src/App.jsx) is the record client: React     *)
(*    state and refs are its fields, a fetch in flight is an element of    *)
(*    client.pending, and an effect that React has still to run is a flag. *)
(***************************************************************************)
EXTENDS Integers, Sequences, FiniteSets, TLC

VARIABLES
  feed,       \* the GTFS tables of the input and its faults (never written)
  pc,         \* position of startServer / loadGTFSData
  db,         \* the GTFSDatabase under construction inside loadGTFSData
  gtfsDB,     \* server.js: the global database reference
  listening,  \* the HTTP listener is open
  exitCode,   \* process.exit code, -1 while the process runs
  warned,     \* tables for which console.warn reported a missing file
  req,        \* the last request received
  resp,       \* the answer to the last request
  client      \* App.jsx: the state of the frontend in the browser

vars == <<feed, pc, db, gtfsDB, listening, exitCode, warned, req, resp, client>>

(***************************************************************************)
(* Bounds of the model.                                                    *)
(***************************************************************************)
MaxCalRows == 2
MaxExcRows == 1
MaxStopTimes == 2
MaxStops == 3
MaxTicks == 2

Null == [null |-> TRUE]
Undefined == [undefined |-> TRUE]

Tables == <<"shapes", "stops", "routes", "trips", "calendar",
            "calendar_dates", "stop_times">>

TableSet == {Tables[i] : i \in 1..Len(Tables)}

(***************************************************************************)
(* JavaScript Map and Set, in insertion order.                             *)
(***************************************************************************)
MapHas(m, key) == \E i \in 1..Len(m) : m[i].k = key

MapGet(m, key) ==
  IF MapHas(m, key)
    THEN m[CHOOSE i \in 1..Len(m) : m[i].k = key].v
    ELSE Undefined

MapSet(m, key, val) ==
  IF MapHas(m, key)
    THEN [i \in 1..Len(m) |-> IF m[i].k = key THEN [k |-> key, v |-> val] ELSE m[i]]
    ELSE Append(m, [k |-> key, v |-> val])

SeqToSet(s) == {s[i] : i \in 1..Len(s)}

SetAdd(s, e) == IF e \in SeqToSet(s) THEN s ELSE Append(s, e)

SetDelete(s, e) == SelectSeq(s, LAMBDA x : x # e)

(***************************************************************************)
(* Array.prototype.sort with a numeric comparator: a stable sort.          *)
(***************************************************************************)
RECURSIVE InsertSorted(_, _, _)
InsertSorted(s, e, field) ==
  IF s = << >> THEN <<e>>
  ELSE IF s[Len(s)][field] <= e[field] THEN Append(s, e)
  ELSE Append(InsertSorted(SubSeq(s, 1, Len(s) - 1), e, field), s[Len(s)])

RECURSIVE SortBy(_, _)
SortBy(s, field) ==
  IF s = << >> THEN << >>
  ELSE InsertSorted(SortBy(SubSeq(s, 1, Len(s) - 1), field), s[Len(s)], field)

(***************************************************************************)
(* Strings: tuples of one-character strings, compared by character code.   *)
(***************************************************************************)
Digits == <<"0", "1", "2", "3", "4", "5", "6", "7", "8", "9">>

DigitSet == {Digits[i] : i \in 1..10}

CharCode(c) ==
  IF c \in DigitSet THEN 47 + (CHOOSE i \in 1..10 : Digits[i] = c)
  ELSE IF c = "-" THEN 45
  ELSE IF c = ":" THEN 58
  ELSE IF c = "T" THEN 84
  ELSE 120

RECURSIVE StrLess(_, _)
StrLess(a, b) ==
  IF b = << >> THEN FALSE
  ELSE IF a = << >> THEN TRUE
  ELSE IF a[1] # b[1] THEN CharCode(a[1]) < CharCode(b[1])
  ELSE StrLess(Tail(a), Tail(b))

StrLE(a, b) == a = b \/ StrLess(a, b)

IsDigits(str) == \A i \in 1..Len(str) : str[i] \in DigitSet

RECURSIVE parseInt(_)
parseInt(str) ==
  IF str = << >> THEN 0
  ELSE 10 * parseInt(SubSeq(str, 1, Len(str) - 1)) + (CharCode(str[Len(str)]) - 48)

RECURSIVE String(_)
String(n) ==
  IF n < 10 THEN <<Digits[n + 1]>> ELSE Append(String(n \div 10), Digits[(n % 10) + 1])

RECURSIVE padStart(_, _)
padStart(str, width) ==
  IF Len(str) >= width THEN str ELSE padStart(<<"0">> \o str, width)

(***************************************************************************)
(* new Date(year, month, day).getDay() in local time.                      *)
(***************************************************************************)
DaysFromCivil(y, m, d) ==
  LET yy  == IF m <= 2 THEN y - 1 ELSE y
      era == yy \div 400
      yoe == yy - era * 400
      mp  == (m + 9) % 12
      doy == (153 * mp + 2) \div 5 + d - 1
      doe == yoe * 365 + yoe \div 4 - yoe \div 100 + doy
  IN  era * 146097 + doe - 719468

DateGetDay(year, month, day) ==
  LET fullYear == IF year >= 0 /\ year <= 99 THEN 1900 + year ELSE year
      ym == fullYear + month \div 12
      mn == month % 12
      dayNumber == DaysFromCivil(ym, mn + 1, 1) + day - 1
  IN  (dayNumber + 4) % 7

dayNames == <<"sunday", "monday", "tuesday", "wednesday", "thursday",
              "friday", "saturday">>

(***************************************************************************)
(* GTFSDatabase: constructor and the loaders of the key-value tables.      *)
(***************************************************************************)
GTFSDatabase ==
  [shapes |-> << >>, stops |-> << >>, routes |-> << >>, trips |-> << >>,
   tripsByService |-> << >>, stopTimes |-> << >>, calendar |-> << >>,
   calendarDates |-> << >>]

RECURSIVE loadStops(_)
loadStops(rows) ==
  IF rows = << >> THEN << >>
  ELSE LET row == rows[Len(rows)]
       IN  MapSet(loadStops(SubSeq(rows, 1, Len(rows) - 1)), row.stop_id,
                  [stop_id |-> row.stop_id, stop_name |-> row.stop_name,
                   stop_lat |-> row.stop_lat, stop_lon |-> row.stop_lon])

RECURSIVE loadRoutes(_)
loadRoutes(rows) ==
  IF rows = << >> THEN << >>
  ELSE LET row == rows[Len(rows)]
       IN  MapSet(loadRoutes(SubSeq(rows, 1, Len(rows) - 1)), row.route_id,
                  [route_id |-> row.route_id, route_type |-> row.route_type])

RECURSIVE loadTripsMap(_)
loadTripsMap(rows) ==
  IF rows = << >> THEN << >>
  ELSE LET row == rows[Len(rows)]
       IN  MapSet(loadTripsMap(SubSeq(rows, 1, Len(rows) - 1)), row.trip_id,
                  [trip_id |-> row.trip_id, route_id |-> row.route_id,
                   service_id |-> row.service_id, shape_id |-> row.shape_id])

\* Mutant: the index keeps only the last trip of each service.
RECURSIVE loadTripsByService_overwrite(_)
loadTripsByService_overwrite(rows) ==
  IF rows = << >> THEN << >>
  ELSE MapSet(loadTripsByService_overwrite(SubSeq(rows, 1, Len(rows) - 1)),
              rows[Len(rows)].service_id, <<rows[Len(rows)].trip_id>>)

RECURSIVE loadTripsByService(_)
loadTripsByService(rows) ==
  IF rows = << >> THEN << >>
  ELSE LET row  == rows[Len(rows)]
           prev == loadTripsByService(SubSeq(rows, 1, Len(rows) - 1))
           old  == IF MapHas(prev, row.service_id)
                     THEN MapGet(prev, row.service_id) ELSE << >>
       IN  MapSet(prev, row.service_id, Append(old, row.trip_id))

RECURSIVE loadCalendar(_)
loadCalendar(rows) ==
  IF rows = << >> THEN << >>
  ELSE LET row == rows[Len(rows)]
       IN  MapSet(loadCalendar(SubSeq(rows, 1, Len(rows) - 1)), row.service_id,
                  [service_id |-> row.service_id,
                   monday |-> row.monday = "1", tuesday |-> row.tuesday = "1",
                   wednesday |-> row.wednesday = "1",
                   thursday |-> row.thursday = "1", friday |-> row.friday = "1",
                   saturday |-> row.saturday = "1", sunday |-> row.sunday = "1",
                   start_date |-> row.start_date, end_date |-> row.end_date])

RECURSIVE loadCalendarDates(_)
loadCalendarDates(rows) ==
  IF rows = << >> THEN << >>
  ELSE LET row  == rows[Len(rows)]
           prev == loadCalendarDates(SubSeq(rows, 1, Len(rows) - 1))
           old  == IF MapHas(prev, row.date) THEN MapGet(prev, row.date) ELSE << >>
       IN  MapSet(prev, row.date, MapSet(old, row.service_id, row.exception_type))

(***************************************************************************)
(* Calendar resolver.                                                      *)
(***************************************************************************)
RECURSIVE ScanCalendar(_, _, _, _)
ScanCalendar(calendar, dateString, dayName, serviceIds) ==
  IF calendar = << >> THEN serviceIds
  ELSE LET serviceId     == calendar[1].k
           calendarEntry == calendar[1].v
           next ==
             IF /\ StrLE(calendarEntry.start_date, dateString)
                /\ StrLE(dateString, calendarEntry.end_date)
                /\ calendarEntry[dayName]
               THEN SetAdd(serviceIds, serviceId)
               ELSE serviceIds
       IN  ScanCalendar(Tail(calendar), dateString, dayName, next)

\* Mutant: a REMOVE exception is not applied.
RECURSIVE ApplyExceptions_ignoreRemove(_, _)
ApplyExceptions_ignoreRemove(exceptions, serviceIds) ==
  IF exceptions = << >> THEN serviceIds
  ELSE ApplyExceptions_ignoreRemove(Tail(exceptions),
         IF exceptions[1].v = 1 THEN SetAdd(serviceIds, exceptions[1].k)
         ELSE serviceIds)

RECURSIVE ApplyExceptions(_, _)
ApplyExceptions(exceptions, serviceIds) ==
  IF exceptions = << >> THEN serviceIds
  ELSE LET serviceId     == exceptions[1].k
           exceptionType == exceptions[1].v
           next ==
             IF exceptionType = 1 THEN SetAdd(serviceIds, serviceId)
             ELSE IF exceptionType = 2 THEN SetDelete(serviceIds, serviceId)
             ELSE serviceIds
       IN  ApplyExceptions(Tail(exceptions), next)

getServicesOnDate(d, dateString) ==
  LET year      == parseInt(SubSeq(dateString, 1, 4))
      month     == parseInt(SubSeq(dateString, 5, 6)) - 1
      day       == parseInt(SubSeq(dateString, 7, 8))
      dayOfWeek == DateGetDay(year, month, day)
      dayName   == dayNames[dayOfWeek + 1]
      regular   == ScanCalendar(d.calendar, dateString, dayName, << >>)
  IN  IF MapHas(d.calendarDates, dateString)
        THEN ApplyExceptions(MapGet(d.calendarDates, dateString), regular)
        ELSE regular

RECURSIVE PushTrips(_, _, _)
PushTrips(d, serviceIds, tripIds) ==
  IF serviceIds = << >> THEN tripIds
  ELSE PushTrips(d, Tail(serviceIds),
                 IF MapHas(d.tripsByService, serviceIds[1])
                   THEN tripIds \o MapGet(d.tripsByService, serviceIds[1])
                   ELSE tripIds)

getTripsOnDate(d, dateString) ==
  PushTrips(d, getServicesOnDate(d, dateString), << >>)

(***************************************************************************)
(* Geometry. On the model's meridian every point has the same longitude,   *)
(* and the haversine distance is the difference of the latitudes.          *)
(***************************************************************************)
Abs(x) == IF x < 0 THEN -x ELSE x

\* Mutant: the distance keeps the sign of the difference.
haversineDistance_signed(lat1, lon1, lat2, lon2) == lat2 - lat1

haversineDistance(lat1, lon1, lat2, lon2) == Abs(lat2 - lat1)

Infinity == 1000000

\* Mutant: a point at the same distance replaces the one found before.
RECURSIVE ClosestScan_lastTie(_, _, _, _, _)
ClosestScan_lastTie(shapePoints, stopLat, stopLon, minDistance, closestShapeDistance) ==
  IF shapePoints = << >> THEN closestShapeDistance
  ELSE LET point == shapePoints[1]
           dist  == haversineDistance(stopLat, stopLon, point.lat, point.lon)
       IN  IF dist <= minDistance
             THEN ClosestScan_lastTie(Tail(shapePoints), stopLat, stopLon, dist,
                                      point.distance)
             ELSE ClosestScan_lastTie(Tail(shapePoints), stopLat, stopLon, minDistance,
                                      closestShapeDistance)

RECURSIVE ClosestScan(_, _, _, _, _)
ClosestScan(shapePoints, stopLat, stopLon, minDistance, closestShapeDistance) ==
  IF shapePoints = << >> THEN closestShapeDistance
  ELSE LET point == shapePoints[1]
           dist  == haversineDistance(stopLat, stopLon, point.lat, point.lon)
       IN  IF dist < minDistance
             THEN ClosestScan(Tail(shapePoints), stopLat, stopLon, dist, point.distance)
             ELSE ClosestScan(Tail(shapePoints), stopLat, stopLon, minDistance,
                              closestShapeDistance)

findClosestPointOnShape(shapePoints, stopLat, stopLon) ==
  IF shapePoints = << >> THEN 0
  ELSE ClosestScan(shapePoints, stopLat, stopLon, Infinity, 0)

(***************************************************************************)
(* loadShapes: group the rows by shape_id, sort each group by sequence,    *)
(* and accumulate the distance along the polyline.                         *)
(***************************************************************************)
RECURSIVE GroupShapeRows(_)
GroupShapeRows(rows) ==
  IF rows = << >> THEN << >>
  ELSE LET row   == rows[Len(rows)]
           prev  == GroupShapeRows(SubSeq(rows, 1, Len(rows) - 1))
           old   == IF MapHas(prev, row.shape_id) THEN MapGet(prev, row.shape_id) ELSE << >>
           point == [lat |-> row.shape_pt_lat, lon |-> row.shape_pt_lon,
                     sequence |-> row.shape_pt_sequence, distance |-> Null]
       IN  MapSet(prev, row.shape_id, Append(old, point))

RECURSIVE CumulateDistances(_)
CumulateDistances(points) ==
  IF points = << >> THEN << >>
  ELSE IF Len(points) = 1 THEN <<[points[1] EXCEPT !.distance = 0]>>
  ELSE LET done      == CumulateDistances(SubSeq(points, 1, Len(points) - 1))
           prevPoint == done[Len(done)]
           curr      == points[Len(points)]
           distFromPrev == haversineDistance(prevPoint.lat, prevPoint.lon,
                                             curr.lat, curr.lon)
       IN  Append(done, [curr EXCEPT !.distance = prevPoint.distance + distFromPrev])

\* Mutant: the points keep the order of the file.
loadShapes_unsorted(rows) ==
  LET shapes == GroupShapeRows(rows)
  IN  [i \in 1..Len(shapes) |->
         [k |-> shapes[i].k, v |-> CumulateDistances(shapes[i].v)]]

loadShapes(rows) ==
  LET shapes == GroupShapeRows(rows)
  IN  [i \in 1..Len(shapes) |->
         [k |-> shapes[i].k,
          v |-> CumulateDistances(SortBy(shapes[i].v, "sequence"))]]

(***************************************************************************)
(* loadStopTimes: group by trip, sort by stop_sequence, derive             *)
(* shape_dist_traveled for every stop time.                                *)
(***************************************************************************)
RECURSIVE GroupStopTimeRows(_)
GroupStopTimeRows(rows) ==
  IF rows = << >> THEN << >>
  ELSE LET row  == rows[Len(rows)]
           prev == GroupStopTimeRows(SubSeq(rows, 1, Len(rows) - 1))
           old  == IF MapHas(prev, row.trip_id) THEN MapGet(prev, row.trip_id) ELSE << >>
           stopTime == [trip_id |-> row.trip_id, stop_id |-> row.stop_id,
                        arrival_time |-> row.arrival_time,
                        departure_time |-> row.departure_time,
                        stop_sequence |-> row.stop_sequence,
                        shape_dist_traveled |-> Null]
       IN  MapSet(prev, row.trip_id, Append(old, stopTime))

\* this.shapes.get(trip.shape_id) for a trip record; a missing trip, an empty
\* shape_id and an unknown shape all give the empty sequence, which every
\* caller treats like null or undefined.
ShapePointsOf(d, tripId) ==
  IF /\ MapHas(d.trips, tripId)
     /\ MapGet(d.trips, tripId).shape_id # ""
     /\ MapHas(d.shapes, MapGet(d.trips, tripId).shape_id)
    THEN MapGet(d.shapes, MapGet(d.trips, tripId).shape_id)
    ELSE << >>

RECURSIVE DeriveStopDistances(_, _, _)
DeriveStopDistances(d, times, shapePoints) ==
  IF times = << >> THEN << >>
  ELSE LET i        == Len(times)
           done     == DeriveStopDistances(d, SubSeq(times, 1, i - 1), shapePoints)
           currStop == MapGet(d.stops, times[i].stop_id)
           dist ==
             IF MapHas(d.stops, times[i].stop_id) /\ Len(shapePoints) > 0
               THEN findClosestPointOnShape(shapePoints, currStop.stop_lat,
                                            currStop.stop_lon)
             ELSE IF i = 1 THEN 0
             ELSE LET prevStop == MapGet(d.stops, times[i - 1].stop_id)
                  IN  IF MapHas(d.stops, times[i - 1].stop_id)
                         /\ MapHas(d.stops, times[i].stop_id)
                        THEN done[i - 1].shape_dist_traveled
                             + haversineDistance(prevStop.stop_lat, prevStop.stop_lon,
                                                 currStop.stop_lat, currStop.stop_lon)
                        ELSE done[i - 1].shape_dist_traveled
       IN  Append(done, [times[i] EXCEPT !.shape_dist_traveled = dist])

loadStopTimes(d, rows) ==
  LET stopTimes == GroupStopTimeRows(rows)
  IN  [n \in 1..Len(stopTimes) |->
         LET tripId == stopTimes[n].k
             times  == SortBy(stopTimes[n].v, "stop_sequence")
         IN  [k |-> tripId,
              v |-> DeriveStopDistances(d, times, ShapePointsOf(d, tripId))]]

\* Mutant: the hour is taken modulo 24.
timeToSeconds_wrapped(timeStr) ==
  (parseInt(timeStr[1]) % 24) * 3600 + parseInt(timeStr[2]) * 60 + parseInt(timeStr[3])

\* The value of a field whose column is not in the file: undefined.
NoTime == << >>

\* timeStr.split throws a TypeError when timeStr is undefined.
timeToSecondsThrows(timeStr) == timeStr = NoTime

timeToSeconds(timeStr) ==
  LET hours   == parseInt(timeStr[1])
      minutes == parseInt(timeStr[2])
      seconds == parseInt(timeStr[3])
  IN  hours * 3600 + minutes * 60 + seconds

(***************************************************************************)
(* Exact fractions for the interpolated values.                            *)
(***************************************************************************)
Rat(n) == [n |-> n, d |-> 1]

RatEq(a, b) == a.n * b.d = b.n * a.d

RatLE(a, b) == a.n * b.d <= b.n * a.d

(***************************************************************************)
(* Position resolver: the position of one trip at currentSeconds.          *)
(***************************************************************************)
RouteOf(d, tripId) ==
  IF MapHas(d.trips, tripId)
    THEN MapGet(d.routes, MapGet(d.trips, tripId).route_id)
    ELSE Null

\* Mutant: the scan keeps the last matching stop time.
RECURSIVE AtStopIndex_last(_, _, _)
AtStopIndex_last(stopTimes, currentSeconds, i) ==
  IF i > Len(stopTimes) THEN 0
  ELSE LET later == AtStopIndex_last(stopTimes, currentSeconds, i + 1)
       IN  IF later # 0 THEN later
           ELSE IF /\ currentSeconds >= timeToSeconds(stopTimes[i].arrival_time)
                   /\ currentSeconds <= timeToSeconds(stopTimes[i].departure_time)
             THEN i
           ELSE 0

\* The loop "Check if at a stop": the index of the first stop time with
\* arrival <= currentSeconds <= departure, or 0.
RECURSIVE AtStopIndex(_, _, _)
AtStopIndex(stopTimes, currentSeconds, i) ==
  IF i > Len(stopTimes) THEN 0
  ELSE IF /\ currentSeconds >= timeToSeconds(stopTimes[i].arrival_time)
          /\ currentSeconds <= timeToSeconds(stopTimes[i].departure_time)
    THEN i
  ELSE AtStopIndex(stopTimes, currentSeconds, i + 1)

\* Mutant: the stop of the matching stop time is not looked up.
AtStopPosition_unchecked(d, tripId, stopTimes, currentSeconds) ==
  LET i == AtStopIndex(stopTimes, currentSeconds, 1)
  IN  IF i = 0 THEN Null
      ELSE [type |-> "Feature",
            properties |-> [trip_id |-> tripId, stop_id |-> stopTimes[i].stop_id,
                            status |-> "at_stop"],
            geometry |-> Null]

AtStopPosition(d, tripId, stopTimes, currentSeconds) ==
  LET i == AtStopIndex(stopTimes, currentSeconds, 1)
  IN  IF i = 0 \/ ~MapHas(d.stops, stopTimes[i].stop_id) THEN Null
      ELSE LET stopTime == stopTimes[i]
               stop     == MapGet(d.stops, stopTime.stop_id)
           IN  [type |-> "Feature",
                properties |->
                  [trip_id |-> tripId, route |-> RouteOf(d, tripId),
                   stop_id |-> stopTime.stop_id, stop_name |-> stop.stop_name,
                   shape_dist_traveled |-> Rat(stopTime.shape_dist_traveled),
                   status |-> "at_stop"],
                geometry |->
                  [type |-> "Point",
                   coordinates |-> <<Rat(stop.stop_lon), Rat(stop.stop_lat)>>]]

\* The loop "Find shape points surrounding the expected distance".
RECURSIVE BracketIndex(_, _, _)
BracketIndex(shapePoints, expectedDistance, j) ==
  IF j > Len(shapePoints) - 1 THEN 0
  ELSE IF /\ RatLE(Rat(shapePoints[j].distance), expectedDistance)
          /\ RatLE(expectedDistance, Rat(shapePoints[j + 1].distance))
    THEN j
  ELSE BracketIndex(shapePoints, expectedDistance, j + 1)

\* Mutant: the elapsed time is counted from the arrival at the first stop.
ExpectedDistance_fromArrival(fromStop, toStop, currentSeconds) ==
  LET totalTime == timeToSeconds(toStop.arrival_time)
                   - timeToSeconds(fromStop.departure_time)
  IN  [n |-> fromStop.shape_dist_traveled * totalTime
             + (toStop.shape_dist_traveled - fromStop.shape_dist_traveled)
               * (currentSeconds - timeToSeconds(fromStop.arrival_time)),
       d |-> totalTime]

\* fromDistance + (toDistance - fromDistance) * timeRatio, as a fraction
\* over totalTime.
ExpectedDistance(fromStop, toStop, currentSeconds) ==
  LET fromDeparture == timeToSeconds(fromStop.departure_time)
      toArrival     == timeToSeconds(toStop.arrival_time)
      timeElapsed   == currentSeconds - fromDeparture
      totalTime     == toArrival - fromDeparture
      fromDistance  == fromStop.shape_dist_traveled
      toDistance    == toStop.shape_dist_traveled
  IN  [n |-> fromDistance * totalTime + (toDistance - fromDistance) * timeElapsed,
       d |-> totalTime]

\* Mutant: the position is the first point of the segment.
InterpolatedPosition_snapped(d, tripId, fromStop, toStop, currentSeconds) ==
  LET expectedDistance == ExpectedDistance(fromStop, toStop, currentSeconds)
      shapePoints   == ShapePointsOf(d, tripId)
      j             == BracketIndex(shapePoints, expectedDistance, 1)
  IN  IF j = 0 THEN Null
      ELSE LET beforePoint == shapePoints[j]
           IN  [type |-> "Feature",
                properties |->
                  [trip_id |-> tripId, route |-> RouteOf(d, tripId),
                   shape_dist_traveled |-> expectedDistance,
                   from_stop_id |-> fromStop.stop_id,
                   to_stop_id |-> toStop.stop_id,
                   status |-> "in_transit"],
                geometry |-> [type |-> "Point",
                              coordinates |-> <<Rat(beforePoint.lon),
                                                Rat(beforePoint.lat)>>]]

InterpolatedPosition(d, tripId, fromStop, toStop, currentSeconds) ==
  LET expectedDistance == ExpectedDistance(fromStop, toStop, currentSeconds)
      shapePoints   == ShapePointsOf(d, tripId)
      j             == BracketIndex(shapePoints, expectedDistance, 1)
  IN  IF j = 0 THEN Null
      ELSE LET beforePoint == shapePoints[j]
               afterPoint  == shapePoints[j + 1]
               distDiff    == afterPoint.distance - beforePoint.distance
               distRatio   ==
                 IF distDiff > 0
                   THEN [n |-> expectedDistance.n - beforePoint.distance * expectedDistance.d,
                         d |-> distDiff * expectedDistance.d]
                   ELSE Rat(0)
               lat == [n |-> beforePoint.lat * distRatio.d
                             + (afterPoint.lat - beforePoint.lat) * distRatio.n,
                       d |-> distRatio.d]
               lon == [n |-> beforePoint.lon * distRatio.d
                             + (afterPoint.lon - beforePoint.lon) * distRatio.n,
                       d |-> distRatio.d]
           IN  [type |-> "Feature",
                properties |->
                  [trip_id |-> tripId, route |-> RouteOf(d, tripId),
                   shape_dist_traveled |-> expectedDistance,
                   from_stop_id |-> fromStop.stop_id,
                   to_stop_id |-> toStop.stop_id,
                   status |-> "in_transit"],
                geometry |-> [type |-> "Point", coordinates |-> <<lon, lat>>]]

\* The loop "If not at a stop, interpolate between stops". A pair that
\* matches while the trip has no usable shape is passed over (continue);
\* the first matching pair of a trip with a shape ends the loop (break).
RECURSIVE InTransitPosition(_, _, _, _, _)
InTransitPosition(d, tripId, stopTimes, currentSeconds, i) ==
  IF i > Len(stopTimes) - 1 THEN Null
  ELSE IF /\ currentSeconds > timeToSeconds(stopTimes[i].departure_time)
          /\ currentSeconds < timeToSeconds(stopTimes[i + 1].arrival_time)
    THEN IF ShapePointsOf(d, tripId) = << >>
           THEN InTransitPosition(d, tripId, stopTimes, currentSeconds, i + 1)
           ELSE InterpolatedPosition(d, tripId, stopTimes[i], stopTimes[i + 1],
                                     currentSeconds)
  ELSE InTransitPosition(d, tripId, stopTimes, currentSeconds, i + 1)

\* Mutant: the service window of the trip is not checked.
TripPosition_noWindow(d, tripId, currentSeconds) ==
  LET stopTimes == IF MapHas(d.stopTimes, tripId)
                     THEN MapGet(d.stopTimes, tripId) ELSE << >>
  IN  IF stopTimes = << >> THEN Null
      ELSE LET position == AtStopPosition(d, tripId, stopTimes, currentSeconds)
           IN  IF position # Null THEN position
               ELSE InTransitPosition(d, tripId, stopTimes, currentSeconds, 1)

TripPosition(d, tripId, currentSeconds) ==
  LET stopTimes == IF MapHas(d.stopTimes, tripId)
                     THEN MapGet(d.stopTimes, tripId) ELSE << >>
  IN  IF stopTimes = << >> THEN Null
      ELSE IF \/ currentSeconds < timeToSeconds(stopTimes[1].arrival_time)
              \/ currentSeconds > timeToSeconds(stopTimes[Len(stopTimes)].departure_time)
        THEN Null
      ELSE LET position == AtStopPosition(d, tripId, stopTimes, currentSeconds)
           IN  IF position # Null THEN position
               ELSE InTransitPosition(d, tripId, stopTimes, currentSeconds, 1)

(***************************************************************************)
(* The exceptions of the position resolver: a call of timeToSeconds on an  *)
(* undefined time, in the order in which the code evaluates the times.     *)
(***************************************************************************)
RECURSIVE AtStopThrows(_, _, _)
AtStopThrows(stopTimes, currentSeconds, i) ==
  IF i > Len(stopTimes) THEN FALSE
  ELSE IF \/ timeToSecondsThrows(stopTimes[i].arrival_time)
          \/ timeToSecondsThrows(stopTimes[i].departure_time)
    THEN TRUE
  ELSE IF /\ currentSeconds >= timeToSeconds(stopTimes[i].arrival_time)
          /\ currentSeconds <= timeToSeconds(stopTimes[i].departure_time)
    THEN FALSE
  ELSE AtStopThrows(stopTimes, currentSeconds, i + 1)

\* Mutant: the length of the shape is read without the test for a trip
\* record, a shape_id and a shape.
RECURSIVE InTransitThrows_unguarded(_, _, _, _, _)
InTransitThrows_unguarded(d, tripId, stopTimes, currentSeconds, i) ==
  IF i > Len(stopTimes) - 1 THEN FALSE
  ELSE IF \/ timeToSecondsThrows(stopTimes[i].departure_time)
          \/ timeToSecondsThrows(stopTimes[i + 1].arrival_time)
    THEN TRUE
  ELSE IF /\ currentSeconds > timeToSeconds(stopTimes[i].departure_time)
          /\ currentSeconds < timeToSeconds(stopTimes[i + 1].arrival_time)
    THEN ShapePointsOf(d, tripId) = << >>
  ELSE InTransitThrows_unguarded(d, tripId, stopTimes, currentSeconds, i + 1)

RECURSIVE InTransitThrows(_, _, _, _, _)
InTransitThrows(d, tripId, stopTimes, currentSeconds, i) ==
  IF i > Len(stopTimes) - 1 THEN FALSE
  ELSE IF \/ timeToSecondsThrows(stopTimes[i].departure_time)
          \/ timeToSecondsThrows(stopTimes[i + 1].arrival_time)
    THEN TRUE
  ELSE IF /\ currentSeconds > timeToSeconds(stopTimes[i].departure_time)
          /\ currentSeconds < timeToSeconds(stopTimes[i + 1].arrival_time)
          /\ ShapePointsOf(d, tripId) # << >>
    THEN FALSE
  ELSE InTransitThrows(d, tripId, stopTimes, currentSeconds, i + 1)

TripThrows(d, tripId, currentSeconds) ==
  LET stopTimes == IF MapHas(d.stopTimes, tripId)
                     THEN MapGet(d.stopTimes, tripId) ELSE << >>
  IN  IF stopTimes = << >> THEN FALSE
      ELSE IF \/ timeToSecondsThrows(stopTimes[1].arrival_time)
              \/ timeToSecondsThrows(stopTimes[Len(stopTimes)].departure_time)
        THEN TRUE
      ELSE IF \/ currentSeconds < timeToSeconds(stopTimes[1].arrival_time)
              \/ currentSeconds > timeToSeconds(stopTimes[Len(stopTimes)].departure_time)
        THEN FALSE
      ELSE IF AtStopThrows(stopTimes, currentSeconds, 1) THEN TRUE
      ELSE IF AtStopPosition(d, tripId, stopTimes, currentSeconds) # Null THEN FALSE
      ELSE InTransitThrows(d, tripId, stopTimes, currentSeconds, 1)

\* getVehiclePositions ends with an exception instead of a value
getVehiclePositionsThrows(d, datetime) ==
  LET month == padStart(String(datetime.month + 1), 2)
      day   == padStart(String(datetime.date), 2)
      dateString == String(datetime.year) \o month \o day
      currentSeconds ==
        datetime.hours * 3600 + datetime.minutes * 60 + datetime.seconds
      tripIds == getTripsOnDate(d, dateString)
  IN  \E n \in 1..Len(tripIds) : TripThrows(d, tripIds[n], currentSeconds)

\* Mutant: the feature is pushed inside the loop over the stop times, once
\* for every stop time with arrival <= currentSeconds <= departure.
RECURSIVE CollectPositions_perStop(_, _, _)
CollectPositions_perStop(d, tripIds, currentSeconds) ==
  IF tripIds = << >> THEN << >>
  ELSE LET position == TripPosition(d, tripIds[1], currentSeconds)
           rest     == CollectPositions_perStop(d, Tail(tripIds), currentSeconds)
           stopTimes == MapGet(d.stopTimes, tripIds[1])
           matches  ==
             {i \in 1..Len(stopTimes) :
                /\ currentSeconds >= timeToSeconds(stopTimes[i].arrival_time)
                /\ currentSeconds <= timeToSeconds(stopTimes[i].departure_time)}
       IN  IF position = Null THEN rest
           ELSE IF matches = {} THEN <<position>> \o rest
           ELSE [i \in 1..Cardinality(matches) |-> position] \o rest

RECURSIVE CollectPositions(_, _, _)
CollectPositions(d, tripIds, currentSeconds) ==
  IF tripIds = << >> THEN << >>
  ELSE LET position == TripPosition(d, tripIds[1], currentSeconds)
           rest     == CollectPositions(d, Tail(tripIds), currentSeconds)
       IN  IF position # Null THEN <<position>> \o rest ELSE rest

\* datetime is the Date object: its local calendar fields.
getVehiclePositions(d, datetime) ==
  LET year  == datetime.year
      month == padStart(String(datetime.month + 1), 2)
      day   == padStart(String(datetime.date), 2)
      dateString == String(year) \o month \o day
      currentSeconds ==
        datetime.hours * 3600 + datetime.minutes * 60 + datetime.seconds
  IN  CollectPositions(d, getTripsOnDate(d, dateString), currentSeconds)

(***************************************************************************)
(* new Date("YYYY-MM-DDTHH:MM:SS"): local time, no zone. The parser        *)
(* accepts months 1..12, days 1..31, hours 0..23 (24 with 00:00), minutes  *)
(* and seconds 0..59; a day past the end of its month rolls over.          *)
(***************************************************************************)
CivilFromDays(z) ==
  LET zz  == z + 719468
      era == zz \div 146097
      doe == zz - era * 146097
      yoe == (doe - doe \div 1460 + doe \div 36524 - doe \div 146096) \div 365
      doy == doe - (365 * yoe + yoe \div 4 - yoe \div 100)
      mp  == (5 * doy + 2) \div 153
      dd  == doy - (153 * mp + 2) \div 5 + 1
      mm  == IF mp < 10 THEN mp + 3 ELSE mp - 9
      yy  == yoe + era * 400 + (IF mm <= 2 THEN 1 ELSE 0)
  IN  [year |-> yy, month |-> mm - 1, date |-> dd]

DateParse(datetimeStr) ==
  LET y  == parseInt(SubSeq(datetimeStr, 1, 4))
      mo == parseInt(SubSeq(datetimeStr, 6, 7))
      dd == parseInt(SubSeq(datetimeStr, 9, 10))
      h  == parseInt(SubSeq(datetimeStr, 12, 13))
      mi == parseInt(SubSeq(datetimeStr, 15, 16))
      sc == parseInt(SubSeq(datetimeStr, 18, 19))
      valid == /\ mo >= 1 /\ mo <= 12 /\ dd >= 1 /\ dd <= 31
               /\ mi <= 59 /\ sc <= 59
               /\ (h <= 23 \/ (h = 24 /\ mi = 0 /\ sc = 0))
      dayNumber == DaysFromCivil(y, mo, 1) + dd - 1 + (IF h = 24 THEN 1 ELSE 0)
      civil == CivilFromDays(dayNumber)
  IN  IF ~valid THEN [isNaN |-> TRUE]
      ELSE [isNaN |-> FALSE, year |-> civil.year, month |-> civil.month,
            date |-> civil.date, hours |-> h % 24, minutes |-> mi, seconds |-> sc]

DateRegex(str) == Len(str) = 8 /\ IsDigits(str)

DatetimeRegex(str) ==
  /\ Len(str) = 19
  /\ \A i \in {1, 2, 3, 4, 6, 7, 9, 10, 12, 13, 15, 16, 18, 19} : str[i] \in DigitSet
  /\ str[5] = "-" /\ str[8] = "-" /\ str[11] = "T"
  /\ str[14] = ":" /\ str[17] = ":"

(***************************************************************************)
(* server.js: the route handlers. g is the value of gtfsDB when the        *)
(* handler runs; a property access on null throws inside the try block.   *)
(***************************************************************************)
Response(status, body) == [status |-> status, body |-> body]

InternalError == Response(500, [error |-> "Internal server error"])

\* Object.keys of an array: its indices as strings.
ObjectKeys(array) == {ToString(i - 1) : i \in 1..Len(array)}

GetTripsOnDateHandler(g, r) ==
  IF ~DateRegex(r.param)
    THEN Response(400, [error |-> "Invalid date format. Expected YYYYMMDD (e.g., 20251119)"])
  ELSE IF g = Null THEN InternalError
  ELSE LET tripIds == getTripsOnDate(g, r.param)
       IN  Response(200, [date |-> r.param, trip_count |-> Len(tripIds),
                          trip_ids |-> tripIds])

\* Mutant: only the length of the date is validated.
GetServicesOnDateHandler_lengthOnly(g, r) ==
  IF Len(r.param) # 8
    THEN Response(400, [error |-> "Invalid date format. Expected YYYYMMDD (e.g., 20251119)"])
  ELSE LET serviceIds == getServicesOnDate(g, r.param)
       IN  Response(200, [date |-> r.param, service_count |-> Len(serviceIds),
                          service_ids |-> serviceIds])

GetServicesOnDateHandler(g, r) ==
  IF ~DateRegex(r.param)
    THEN Response(400, [error |-> "Invalid date format. Expected YYYYMMDD (e.g., 20251119)"])
  ELSE IF g = Null THEN InternalError
  ELSE LET serviceIds == getServicesOnDate(g, r.param)
       IN  Response(200, [date |-> r.param, service_count |-> Len(serviceIds),
                          service_ids |-> serviceIds])

\* Mutant: the routes parameter is read as a single route id, its first.
GetVehiclesAtHandler_firstRoute(g, r) ==
  IF ~DatetimeRegex(r.param) \/ DateParse(r.param).isNaN \/ g = Null
    THEN Response(400, [error |-> "Invalid datetime value"])
  ELSE LET all == getVehiclePositions(g, DateParse(r.param))
           vehicles ==
             IF r.routes = Null THEN all
             ELSE SelectSeq(all, LAMBDA f :
                    MapGet(g.trips, f.properties.trip_id).route_id = r.routes.ids[1])
       IN  Response(200, [datetime |-> r.param,
                          vehicle_count |-> Cardinality(ObjectKeys(vehicles)),
                          vehicles |-> vehicles])

\* Mutant: the handler has no try block; the framework answers the
\* exception with its own error page.
GetVehiclesAtHandler_uncaught(g, r) ==
  IF ~DatetimeRegex(r.param)
    THEN Response(400, [error |-> "Invalid datetime format"])
  ELSE IF DateParse(r.param).isNaN
    THEN Response(400, [error |-> "Invalid datetime value"])
  ELSE IF g = Null \/ getVehiclePositionsThrows(g, DateParse(r.param))
    THEN Response(500, [html |-> "TypeError"])
  ELSE LET vehicles == getVehiclePositions(g, DateParse(r.param))
       IN  Response(200, [datetime |-> r.param,
                          vehicle_count |-> Cardinality(ObjectKeys(vehicles)),
                          vehicles |-> vehicles])

GetVehiclesAtHandler(g, r) ==
  IF ~DatetimeRegex(r.param)
    THEN Response(400, [error |-> "Invalid datetime format. Expected ISO 8601 format: YYYY-MM-DDTHH:MM:SS (e.g., 2025-11-19T09:27:00)"])
  ELSE LET datetime == DateParse(r.param)
       IN  IF datetime.isNaN THEN Response(400, [error |-> "Invalid datetime value"])
           ELSE IF g = Null THEN InternalError
           ELSE IF getVehiclePositionsThrows(g, datetime) THEN InternalError
           ELSE LET vehicles == getVehiclePositions(g, datetime)
                IN  Response(200, [datetime |-> r.param,
                                   vehicle_count |-> Cardinality(ObjectKeys(vehicles)),
                                   vehicles |-> vehicles])

GetTripHandler(g, r) ==
  IF g = Null THEN InternalError
  ELSE IF ~MapHas(g.trips, r.param)
    THEN Response(404, [error |-> <<"Trip with id '", r.param, "' not found">>])
  ELSE Response(200, MapGet(g.trips, r.param))

GetHealthHandler(g, r) ==
  Response(200,
    [status |-> "ok",
     shapesLoaded |-> IF g # Null THEN Len(g.shapes) ELSE 0,
     stopsLoaded |-> IF g # Null THEN Len(g.stops) ELSE 0,
     routesLoaded |-> IF g # Null THEN Len(g.routes) ELSE 0,
     tripsLoaded |-> IF g # Null THEN Len(g.trips) ELSE 0,
     stopTimesLoaded |-> IF g # Null THEN Len(g.stopTimes) ELSE 0,
     calendarLoaded |-> IF g # Null THEN Len(g.calendar) ELSE 0,
     calendarDatesLoaded |-> IF g # Null THEN Len(g.calendarDates) ELSE 0])

(***************************************************************************)
(* The input feeds. Every table keeps the key of its rows unique.          *)
(***************************************************************************)
DateStr(n) == padStart(String(n), 8)

TimeStr(h, m, sec) ==
  <<padStart(String(h), 2), padStart(String(m), 2), padStart(String(sec), 2)>>

DatetimeStr(ymd, h, m, sec) ==
  LET dstr == DateStr(ymd)
  IN  SubSeq(dstr, 1, 4) \o <<"-">> \o SubSeq(dstr, 5, 6) \o <<"-">> \o SubSeq(dstr, 7, 8)
      \o <<"T">> \o padStart(String(h), 2) \o <<":">> \o padStart(String(m), 2)
      \o <<":">> \o padStart(String(sec), 2)

Services == {"s1", "s2"}

StopRow(id, lat) ==
  [stop_id |-> id, stop_name |-> <<"Stop ", id>>, stop_lat |-> lat, stop_lon |-> 7]

\* the file's own shape_dist_traveled runs against the sequence
ShapeRow(id, lat, sequence) ==
  [shape_id |-> id, shape_pt_lat |-> lat, shape_pt_lon |-> 7,
   shape_pt_sequence |-> sequence, shape_dist_traveled |-> 100 - sequence]

TripRow(id, route, service, shape) ==
  [trip_id |-> id, route_id |-> route, service_id |-> service, shape_id |-> shape]

StopTimeRow(trip, stop, times, sequence) ==
  [trip_id |-> trip, stop_id |-> stop, arrival_time |-> times[1],
   departure_time |-> times[2], stop_sequence |-> sequence]

CalendarRow(service, days, range) ==
  [service_id |-> service,
   monday    |-> IF "monday" \in days THEN "1" ELSE "0",
   tuesday   |-> IF "tuesday" \in days THEN "1" ELSE "0",
   wednesday |-> IF "wednesday" \in days THEN "1" ELSE "0",
   thursday  |-> IF "thursday" \in days THEN "1" ELSE "0",
   friday    |-> IF "friday" \in days THEN "1" ELSE "0",
   saturday  |-> IF "saturday" \in days THEN "1" ELSE "0",
   sunday    |-> IF "sunday" \in days THEN "1" ELSE "0",
   start_date |-> DateStr(range[1]), end_date |-> DateStr(range[2])]

Weekdays == {"monday", "tuesday", "wednesday", "thursday", "friday"}

Weekend == {"saturday", "sunday"}

AllDays == Weekdays \cup Weekend

StopsRows == <<StopRow("a", 0), StopRow("b", 4), StopRow("c", 2)>>

RoutesRows == <<[route_id |-> "r1", route_type |-> "3"],
                [route_id |-> "r2", route_type |-> "1"]>>

\* shapes.txt variants: a straight line listed out of order, a line that
\* runs out and back, and a file without the trips' shape.
ShapeVariants ==
  { <<ShapeRow("sh1", 2, 2), ShapeRow("sh1", 0, 1), ShapeRow("sh1", 4, 3)>>,
    <<ShapeRow("sh1", 0, 1), ShapeRow("sh1", 4, 2), ShapeRow("sh1", 0, 3)>>,
    <<ShapeRow("sh9", 0, 1), ShapeRow("sh9", 4, 2)>> }

T0900 == TimeStr(9, 0, 0)

T0900h == TimeStr(9, 0, 30)

T0910 == TimeStr(9, 10, 0)

\* stop and times of a stop_times.txt row; stop zz is not in stops.txt
StopTimeChoices ==
  { <<"a", <<T0900, T0900h>>>>, <<"b", <<T0910, T0910>>>>,
    <<"zz", <<T0900, T0900h>>>>, <<"b", <<T0900, T0910>>>> }

\* stop_times.txt rows of one trip: at most MaxStopTimes rows with distinct
\* stop_sequence values, in any file order.
StopTimeRows(trip) ==
  { StopTimeRow(trip, c[1], c[2], sequence) :
      c \in StopTimeChoices, sequence \in 1..MaxStopTimes }

StopTimeSeqs(trip) ==
  UNION { { st \in [1..n -> StopTimeRows(trip)] :
              \A i, j \in 1..n :
                i # j => st[i].stop_sequence # st[j].stop_sequence }
          : n \in 0..MaxStopTimes }

FixedStopTimes(trip) ==
  <<StopTimeRow(trip, "a", <<T0900, T0900h>>, 1),
    StopTimeRow(trip, "b", <<T0910, T0910>>, 2)>>

CalendarRows ==
  { CalendarRow(sv, c[1], c[2]) :
      sv \in Services,
      c \in {<<Weekdays, <<20250101, 20251231>>>>,
             <<Weekend, <<20250101, 20251231>>>>,
             <<AllDays, <<20250104, 20250104>>>>} }

CalendarSeqs ==
  UNION { { c \in [1..n -> CalendarRows] :
              \A i, j \in 1..n : i # j => c[i].service_id # c[j].service_id }
          : n \in 0..MaxCalRows }

ExceptionRows ==
  [date : {DateStr(20250103), DateStr(20250104)},
   service_id : {"s1", "s3"},
   exception_type : {1, 2, 3}]

ExceptionSeqs ==
  UNION { { e \in [1..n -> ExceptionRows] :
              \A i, j \in 1..n :
                i # j => <<e[i].date, e[i].service_id>> # <<e[j].date, e[j].service_id>> }
          : n \in 0..MaxExcRows }

AllPresent == [t \in TableSet |-> TRUE]

Without(table) == [t \in TableSet |-> t # table]

\* failing: the step of the start-up that fails with an error, if any;
\* source: the storage the tables are read from; unreachable: the tables
\* whose requests to the container fail in transport
BaseFeed ==
  [family |-> "startup", files |-> AllPresent, failing |-> "none",
   source |-> "local", unreachable |-> {},
   shapes |-> <<ShapeRow("sh1", 2, 2), ShapeRow("sh1", 0, 1), ShapeRow("sh1", 4, 3)>>,
   stops |-> StopsRows, routes |-> RoutesRows,
   trips |-> <<TripRow("t1", "r1", "s1", "sh1"), TripRow("t2", "r2", "s2", "sh1"),
               TripRow("t3", "r1", "s1", "")>>,
   calendar |-> <<CalendarRow("s1", AllDays, <<20250101, 20251231>>)>>,
   calendar_dates |-> << >>,
   stop_times |-> FixedStopTimes("t1") \o FixedStopTimes("t2")]

Steps == TableSet \cup {"provider"}

\* stop_times.txt without the column arrival_time
WithoutArrivalTimes(rows) == [i \in 1..Len(rows) |-> [rows[i] EXCEPT !.arrival_time = NoTime]]

StartupFeeds ==
  { [BaseFeed EXCEPT !.files = f, !.failing = e] :
      f \in [TableSet -> BOOLEAN], e \in Steps \cup {"none"} }
  \cup
  { [BaseFeed EXCEPT !.stop_times = WithoutArrivalTimes(@)] }

CalendarFeeds ==
  { [BaseFeed EXCEPT !.family = "calendar", !.calendar = c, !.calendar_dates = e] :
      c \in CalendarSeqs, e \in ExceptionSeqs }
  \cup
  { [BaseFeed EXCEPT !.family = "calendar", !.files = Without("calendar"),
                     !.calendar_dates = <<[date |-> DateStr(20250103),
                                           service_id |-> "s1",
                                           exception_type |-> 1]>>],
    [BaseFeed EXCEPT !.family = "calendar", !.failing = "calendar_dates"] }

VehicleFeeds ==
  { [BaseFeed EXCEPT !.family = "vehicles", !.shapes = sh,
                     !.trips = <<TripRow("t1", "r1", "s1", "sh1"),
                                 TripRow("t2", "r2", "s1", "sh1")>>,
                     !.stop_times = st \o FixedStopTimes("t2")] :
      sh \in ShapeVariants, st \in StopTimeSeqs("t1") }
  \cup
  { [BaseFeed EXCEPT !.family = "vehicles", !.files = Without("routes")],
    [BaseFeed EXCEPT !.family = "vehicles", !.failing = "stop_times"] }

\* Service past midnight: stop times around and after 24:00:00, on a
\* service that runs every day.
OvernightChoices ==
  { <<"a", <<TimeStr(23, 50, 0), TimeStr(23, 55, 0)>>>>,
    <<"a", <<TimeStr(23, 59, 0), TimeStr(24, 10, 0)>>>>,
    <<"a", <<TimeStr(24, 0, 0), TimeStr(24, 6, 0)>>>>,
    <<"b", <<TimeStr(25, 0, 0), TimeStr(25, 10, 0)>>>> }

OvernightSeqs(trip) ==
  UNION { { st \in [1..n -> { StopTimeRow(trip, c[1], c[2], sequence) :
                                c \in OvernightChoices, sequence \in 1..MaxStopTimes }] :
              \A i, j \in 1..n :
                i # j => st[i].stop_sequence # st[j].stop_sequence }
          : n \in 0..MaxStopTimes }

OvernightFeeds ==
  { [BaseFeed EXCEPT !.family = "overnight", !.stop_times = st] :
      st \in OvernightSeqs("t1") }
  \cup
  { [BaseFeed EXCEPT !.family = "overnight", !.files = Without("shapes")],
    [BaseFeed EXCEPT !.family = "overnight", !.failing = "stops"] }

\* Shapes with repeated points: the first point twice, a point in the
\* middle twice, a line out and back, a shape of one point, and a file
\* without the trips' shape.
GeometryShapes ==
  { <<ShapeRow("sh1", 0, 1), ShapeRow("sh1", 0, 2), ShapeRow("sh1", 4, 3)>>,
    <<ShapeRow("sh1", 0, 1), ShapeRow("sh1", 2, 2), ShapeRow("sh1", 2, 3),
      ShapeRow("sh1", 4, 4)>>,
    <<ShapeRow("sh1", 0, 1), ShapeRow("sh1", 4, 2), ShapeRow("sh1", 0, 3)>>,
    <<ShapeRow("sh1", 2, 1)>>,
    <<ShapeRow("sh9", 0, 1), ShapeRow("sh9", 4, 2)>> }

T0905 == TimeStr(9, 5, 0)

\* a short dwell, a long dwell at a stop that is not in stops.txt, a stop
\* without dwell, and the last stop
GeometryChoices ==
  { <<"a", <<T0900, T0900h>>>>, <<"zz", <<T0900, T0910>>>>,
    <<"c", <<T0905, T0905>>>>, <<"b", <<T0910, T0910>>>> }

\* stop_times.txt rows of one trip, at most MaxStops rows in the order of
\* their stop_sequence
GeometrySeqs(trip) ==
  UNION { { [i \in 1..n |-> StopTimeRow(trip, c[i][1], c[i][2], i)] :
              c \in [1..n -> GeometryChoices] }
          : n \in 0..MaxStops }

\* trip t3 has no shape_id; t2 comes after it in the index of its service
GeometryFeeds ==
  { [BaseFeed EXCEPT !.family = "geometry", !.shapes = sh,
                     !.trips = <<TripRow("t1", "r1", "s1", "sh1"),
                                 TripRow("t3", "r1", "s1", ""),
                                 TripRow("t2", "r2", "s1", "sh1")>>,
                     !.stop_times = st \o FixedStopTimes("t3") \o FixedStopTimes("t2")] :
      sh \in GeometryShapes, st \in GeometrySeqs("t1") }
  \cup
  { [BaseFeed EXCEPT !.family = "geometry", !.files = Without("stops")],
    [BaseFeed EXCEPT !.family = "geometry", !.failing = "shapes"] }

\* The tables in a container, some of them out of reach.
BlobFeeds ==
  { [BaseFeed EXCEPT !.family = "blob", !.source = "azure", !.unreachable = u] :
      u \in SUBSET TableSet }
  \cup
  { [BaseFeed EXCEPT !.family = "blob", !.source = "azure", !.files = Without("routes")],
    [BaseFeed EXCEPT !.family = "blob", !.source = "azure", !.failing = "provider"],
    [BaseFeed EXCEPT !.family = "blob", !.source = "azure", !.failing = "stop_times"] }

\* Two trips of different route types whose service windows overlap: t1
\* runs 09:00-09:10 and t2 09:05-09:15.
ClientFeeds ==
  { [BaseFeed EXCEPT !.family = "client",
                     !.trips = <<TripRow("t1", "r1", "s1", "sh1"),
                                 TripRow("t2", "r2", "s1", "sh1")>>,
                     !.stop_times =
                        FixedStopTimes("t1")
                        \o <<StopTimeRow("t2", "a", <<T0905, TimeStr(9, 5, 30)>>, 1),
                             StopTimeRow("t2", "b", <<TimeStr(9, 15, 0),
                                                      TimeStr(9, 15, 0)>>, 2)>>],
    [BaseFeed EXCEPT !.family = "client", !.files = Without("routes")],
    [BaseFeed EXCEPT !.family = "client", !.failing = "stop_times"] }

(***************************************************************************)
(* The requests a client sends, per family of feeds.                       *)
(***************************************************************************)
QueryDates ==
  IF feed.family = "calendar"
    THEN {DateStr(20250103), DateStr(20250104), DateStr(20250105),
          DateStr(20241231), <<"2", "0", "2", "5", "0", "1", "0", "x">>}
  ELSE IF feed.family = "startup"
    THEN {DateStr(20250103), SubSeq(DateStr(20250103), 1, 7),
          DateStr(20250103) \o <<"1">>,
          <<"2", "0", "2", "5", "0", "1", "0", "x">>,
          <<"2", "0", "2", "5", "-", "1", "-", "3">>}
    ELSE {DateStr(20250103), SubSeq(DateStr(20250103), 1, 7)}

\* datetime.toLocaleString('sv').replace(' ', 'T') of the simulated time
\* of the frontend: it starts at 09:03 and a tick is four minutes
ClientDatetime(ticks) == DatetimeStr(20250103, 9, 3 + 4 * ticks, 0)

QueryDatetimes ==
  IF feed.family = "client"
    THEN {ClientDatetime(t) : t \in 0..MaxTicks}
  ELSE IF feed.family = "vehicles"
    THEN {DatetimeStr(20250103, 8, 59, 0), DatetimeStr(20250103, 9, 0, 15),
          DatetimeStr(20250103, 9, 5, 0), DatetimeStr(20250103, 9, 10, 0),
          DatetimeStr(20251303, 9, 0, 15)}
  ELSE IF feed.family = "overnight"
    THEN {DatetimeStr(20250103, 23, 52, 0), DatetimeStr(20250103, 23, 59, 30),
          DatetimeStr(20250103, 0, 5, 30), DatetimeStr(20250104, 0, 5, 30),
          DatetimeStr(20250104, 1, 5, 0), DatetimeStr(20250103, 24, 0, 0)}
  ELSE IF feed.family = "geometry"
    THEN {DatetimeStr(20250103, 9, 0, 15), DatetimeStr(20250103, 9, 3, 0),
          DatetimeStr(20250103, 9, 5, 0), DatetimeStr(20250103, 9, 7, 0)}
  ELSE IF feed.family = "startup"
    THEN {DatetimeStr(20250103, 9, 0, 15),
          SubSeq(DatetimeStr(20250103, 9, 0, 15), 1, 16),
          DateStr(20250103) \o <<"T">> \o SubSeq(DatetimeStr(20250103, 9, 0, 15), 12, 19),
          [DatetimeStr(20250103, 9, 0, 15) EXCEPT ![11] = "x"],
          DatetimeStr(20251303, 9, 0, 15), DatetimeStr(20250100, 9, 0, 15),
          DatetimeStr(20250103, 25, 0, 15), DatetimeStr(20250103, 9, 60, 15),
          DatetimeStr(20250103, 9, 0, 60)}
    ELSE {DatetimeStr(20250103, 9, 0, 15), SubSeq(DatetimeStr(20250103, 9, 0, 15), 1, 16)}

\* The value of the routes query parameter: a list of route ids, or none.
QueryRoutes ==
  IF feed.family = "vehicles"
    THEN {Null, [ids |-> <<"r1">>], [ids |-> <<"r2">>], [ids |-> <<"r1", "r2">>]}
    ELSE {Null}

QueryTripIds == {"t1", "nope"}

NoMessage == [none |-> TRUE]

(***************************************************************************)
(* The storage providers.                                                  *)
(***************************************************************************)
\* LocalStorageProvider.exists: fs.existsSync
LocalExists(table) == feed.files[table]

\* AzureBlobStorageProvider.exists: blobClient.exists() rejects for a table
\* out of reach; the catch block logs the error and returns false.
AzureExists(table) ==
  IF table \in feed.unreachable THEN FALSE ELSE feed.files[table]

\* the provider that createStorageProvider has chosen answers
ProviderExists(table) ==
  IF feed.source = "azure" THEN AzureExists(table) ELSE LocalExists(table)

\* the existence check of loadGTFSData, made through the provider that
\* startServer passes to it: false is a table that is not found
TableExists(table) == ProviderExists(table)

(***************************************************************************)
(* startServer: the storage provider is created first.                     *)
(***************************************************************************)
CreateStorageProvider ==
  /\ pc = "provider"
  /\ exitCode = -1
  /\ feed.failing # "provider"
  /\ pc' = "shapes"
  /\ UNCHANGED <<feed, db, gtfsDB, listening, exitCode, warned, req, resp, client>>

(***************************************************************************)
(* loadGTFSData: one step per table, in the order of the code.             *)
(***************************************************************************)
\* Mutant: stop_times.txt is read before trips.txt.
NextTable_stopTimesEarly(table) ==
  CASE table = "routes" -> "stop_times"
    [] table = "stop_times" -> "trips"
    [] table = "calendar_dates" -> "install"
    [] OTHER -> Tables[(CHOOSE i \in 1..Len(Tables) : Tables[i] = table) + 1]

NextTable(table) ==
  IF table = "stop_times" THEN "install"
  ELSE Tables[(CHOOSE i \in 1..Len(Tables) : Tables[i] = table) + 1]

Loading(table) ==
  /\ pc = table
  /\ exitCode = -1
  /\ TableExists(table)
  /\ feed.failing # table
  /\ pc' = NextTable(table)
  /\ UNCHANGED <<feed, gtfsDB, listening, exitCode, warned, req, resp, client>>

LoadShapes ==
  /\ Loading("shapes")
  /\ db' = [db EXCEPT !.shapes = loadShapes(feed.shapes)]

LoadStops ==
  /\ Loading("stops")
  /\ db' = [db EXCEPT !.stops = loadStops(feed.stops)]

LoadRoutes ==
  /\ Loading("routes")
  /\ db' = [db EXCEPT !.routes = loadRoutes(feed.routes)]

LoadTrips ==
  /\ Loading("trips")
  /\ db' = [db EXCEPT !.trips = loadTripsMap(feed.trips),
                      !.tripsByService = loadTripsByService(feed.trips)]

LoadCalendar ==
  /\ Loading("calendar")
  /\ db' = [db EXCEPT !.calendar = loadCalendar(feed.calendar)]

LoadCalendarDates ==
  /\ Loading("calendar_dates")
  /\ db' = [db EXCEPT !.calendarDates = loadCalendarDates(feed.calendar_dates)]

LoadStopTimes ==
  /\ Loading("stop_times")
  /\ db' = [db EXCEPT !.stopTimes = loadStopTimes(db, feed.stop_times)]

\* Mutant: a table that is not found ends the start-up.
MissingTable_fails ==
  /\ pc \in TableSet
  /\ exitCode = -1
  /\ ~TableExists(pc)
  /\ pc' = "exited"
  /\ exitCode' = 1
  /\ UNCHANGED <<feed, db, gtfsDB, listening, warned, req, resp, client>>

\* fs.existsSync is false: warn and go on to the next table.
MissingTable ==
  /\ pc \in TableSet
  /\ exitCode = -1
  /\ ~TableExists(pc)
  /\ warned' = warned \cup {pc}
  /\ pc' = NextTable(pc)
  /\ UNCHANGED <<feed, db, gtfsDB, listening, exitCode, req, resp, client>>

\* Mutant: the catch block logs the error and the start-up goes on.
LoadError_swallowed ==
  /\ pc \in TableSet
  /\ feed.failing = pc
  /\ TableExists(pc)
  /\ pc' = NextTable(pc)
  /\ UNCHANGED <<feed, db, gtfsDB, listening, exitCode, warned, req, resp, client>>

\* createStorageProvider throws, or the stream of a table emits 'error' (the
\* promise rejects and loadGTFSData rejects): the catch block of startServer
\* exits the process.
LoadError ==
  /\ pc \in TableSet \cup {"provider"}
  /\ exitCode = -1
  /\ feed.failing = pc
  /\ pc \in TableSet => TableExists(pc)
  /\ pc' = "exited"
  /\ exitCode' = 1
  /\ UNCHANGED <<feed, db, gtfsDB, listening, warned, req, resp, client>>

(***************************************************************************)
(* startServer after the await: install the dataset, call app.listen; the  *)
(* listener opens afterwards.                                              *)
(***************************************************************************)
\* Mutant: the dataset is installed without awaiting the last table.
Install_early ==
  /\ pc = "stop_times"
  /\ gtfsDB' = db
  /\ pc' = "binding"
  /\ UNCHANGED <<feed, db, listening, exitCode, warned, req, resp, client>>

Install ==
  /\ pc = "install"
  /\ gtfsDB' = db
  /\ pc' = "binding"
  /\ UNCHANGED <<feed, db, listening, exitCode, warned, req, resp, client>>

ListenerOpen ==
  /\ pc = "binding"
  /\ listening' = TRUE
  /\ pc' = "serving"
  /\ UNCHANGED <<feed, db, gtfsDB, exitCode, warned, req, resp, client>>

(***************************************************************************)
(* Requests.                                                               *)
(***************************************************************************)
Request(path, param, routes) ==
  [path |-> path, param |-> param, routes |-> routes]

\* Mutant: answering a request empties the index of trips by service.
Serve_consuming(r, response) ==
  /\ listening
  /\ req' = r
  /\ resp' = response
  /\ gtfsDB' = [gtfsDB EXCEPT !.tripsByService = << >>]
  /\ UNCHANGED <<feed, pc, db, listening, exitCode, warned, client>>

\* A handler runs to completion on the dataset and only reads it.
Serve(r, response) ==
  /\ listening
  /\ req' = r
  /\ resp' = response
  /\ UNCHANGED <<feed, pc, db, gtfsDB, listening, exitCode, warned, client>>

GetServicesOnDate ==
  \E param \in QueryDates :
    LET r == Request("/services/on/:date", param, Null)
    IN  Serve(r, GetServicesOnDateHandler(gtfsDB, r))

GetTripsOnDate ==
  \E param \in QueryDates :
    LET r == Request("/trips/on/:date", param, Null)
    IN  Serve(r, GetTripsOnDateHandler(gtfsDB, r))

\* Mutant: the array of positions is kept between two calls.
GetVehiclesAt_appending ==
  \E param \in QueryDatetimes, routes \in QueryRoutes :
    LET r == Request("/vehicles/at/:datetime", param, routes)
        answer == GetVehiclesAtHandler(gtfsDB, r)
        kept == IF resp # NoMessage /\ resp.status = 200 /\ req.path = r.path
                  THEN resp.body.vehicles ELSE << >>
    IN  Serve(r, IF answer.status = 200
                   THEN [answer EXCEPT !.body.vehicles = kept \o @]
                   ELSE answer)

GetVehiclesAt ==
  \E param \in QueryDatetimes, routes \in QueryRoutes :
    LET r == Request("/vehicles/at/:datetime", param, routes)
    IN  Serve(r, GetVehiclesAtHandler(gtfsDB, r))

GetTrip ==
  \E param \in QueryTripIds :
    LET r == Request("/trips/:id", param, Null)
    IN  Serve(r, GetTripHandler(gtfsDB, r))

GetHealth ==
  LET r == Request("/health", << >>, Null)
  IN  Serve(r, GetHealthHandler(gtfsDB, r))

\* A request sent while no listener is open reaches no handler: the
\* connection is refused and no HTTP response exists.
ConnectionRefused ==
  /\ ~listening
  /\ req' = Request("/vehicles/at/:datetime", DatetimeStr(20250103, 9, 0, 15), Null)
  /\ resp' = Response(0, [refused |-> TRUE])
  /\ UNCHANGED <<feed, pc, db, gtfsDB, listening, exitCode, warned, client>>

(***************************************************************************)
(* The frontend, src/client/src/App.jsx. The simulated time is counted in  *)
(* steps of four minutes from 09:03:00 on 2025-01-03.                      *)
(***************************************************************************)
\* Date.prototype.getTime of a parsed date: its seconds since the epoch
getTime(date) ==
  DaysFromCivil(date.year, date.month + 1, date.date) * 86400
  + date.hours * 3600 + date.minutes * 60 + date.seconds

\* new Date(data.datetime)
NewDate(datetimeStr) == [time |-> getTime(DateParse(datetimeStr))]

\* useState and useRef of App and VehicleMarkers; the first fetch of the
\* effect "Initialize with current vehicles" is in flight
InitialClient ==
  [simulatedTime |-> 0, isPlaying |-> FALSE, pending |-> {0},
   lastVehicleUpdateTime |-> Null, vehicleData |-> << >>,
   dataDatetime |-> Null, ignored |-> {},
   effectPending |-> FALSE, markers |-> << >>]

ClientStep(next) ==
  /\ client' = next
  /\ UNCHANGED <<feed, pc, db, gtfsDB, listening, exitCode, warned, req, resp>>

handlePlayPause ==
  ClientStep([client EXCEPT !.isPlaying = ~client.isPlaying])

\* the callback of setInterval: the simulated time advances by the elapsed
\* time and the vehicles at the new time are fetched
IntervalTick ==
  /\ client.isPlaying
  /\ \E elapsed \in 1..MaxTicks :
       /\ client.simulatedTime + elapsed <= MaxTicks
       /\ ClientStep([client EXCEPT
                        !.simulatedTime = @ + elapsed,
                        !.pending = @ \cup {client.simulatedTime + elapsed}])

\* the effect on the route selection: the vehicles at the current time are
\* fetched again
RouteSelectionChanged ==
  ClientStep([client EXCEPT !.pending = @ \cup {client.simulatedTime}])

\* fetch rejects (no listener): the catch block logs the error
FetchFails ==
  /\ ~listening
  /\ \E t \in client.pending :
       ClientStep([client EXCEPT !.pending = @ \ {t}])

\* Mutant: every answer is applied.
fetchVehicles_unordered(c, data) ==
  [c EXCEPT !.lastVehicleUpdateTime = NewDate(data.datetime),
            !.vehicleData = data.vehicles,
            !.dataDatetime = [datetime |-> data.datetime],
            !.effectPending = TRUE]

\* fetchVehicles after the await of response.json(): an answer older than
\* the last one applied is ignored
fetchVehicles(c, data) ==
  LET responseDateTime == NewDate(data.datetime)
  IN  IF /\ c.lastVehicleUpdateTime # Null
         /\ responseDateTime.time < c.lastVehicleUpdateTime.time
        THEN [c EXCEPT !.ignored = @ \cup {data.datetime}]
        ELSE [c EXCEPT !.lastVehicleUpdateTime = responseDateTime,
                       !.vehicleData = data.vehicles,
                       !.dataDatetime = [datetime |-> data.datetime],
                       !.effectPending = TRUE]

\* one of the fetches in flight completes, in any order: the response the
\* server gave to its request arrives; one that is not ok is logged and
\* dropped, any other goes on in fetchVehicles
FetchCompletes ==
  /\ listening
  /\ req # NoMessage
  /\ req.path = "/vehicles/at/:datetime"
  /\ req.routes = Null
  /\ \E t \in client.pending :
       /\ req.param = ClientDatetime(t)
       /\ client' = IF resp.status # 200
                      THEN [client EXCEPT !.pending = @ \ {t}]
                      ELSE fetchVehicles([client EXCEPT !.pending = @ \ {t}], resp.body)
  /\ UNCHANGED <<feed, pc, db, gtfsDB, listening, exitCode, warned, req, resp>>

\* newVehicles[tripId]
FeatureAt(newVehicles, key) ==
  newVehicles[CHOOSE i \in 1..Len(newVehicles) : ToString(i - 1) = key]

\* L.marker(latlng, {icon}) with its popup; trip is the trip of the feature
\* the marker is created for
NewMarker(feature) ==
  [trip |-> feature.properties.trip_id,
   icon |-> IF feature.properties.route \in {Null, Undefined} THEN "3"
            ELSE feature.properties.route.route_type,
   latlng |-> <<feature.geometry.coordinates[2], feature.geometry.coordinates[1]>>,
   popup |-> feature.properties]

\* Mutant: the markers of the keys that are gone stay.
UpdateMarkers_keeping(currentMarkers, newVehicles) ==
  [key \in DOMAIN currentMarkers \cup ObjectKeys(newVehicles) |->
     IF key \notin ObjectKeys(newVehicles) THEN currentMarkers[key]
     ELSE IF key \in DOMAIN currentMarkers
       THEN [currentMarkers[key] EXCEPT
               !.latlng = NewMarker(FeatureAt(newVehicles, key)).latlng,
               !.popup = FeatureAt(newVehicles, key).properties]
     ELSE NewMarker(FeatureAt(newVehicles, key))]

\* the update effect of VehicleMarkers: the markers whose key is not in
\* newVehicles are removed, the marker of a key that stays is moved and its
\* popup rewritten, a new key gets a new marker
UpdateMarkers(currentMarkers, newVehicles) ==
  [key \in ObjectKeys(newVehicles) |->
     IF key \in DOMAIN currentMarkers
       THEN [currentMarkers[key] EXCEPT
               !.latlng = NewMarker(FeatureAt(newVehicles, key)).latlng,
               !.popup = FeatureAt(newVehicles, key).properties]
       ELSE NewMarker(FeatureAt(newVehicles, key))]

MarkersEffect ==
  /\ client.effectPending
  /\ ClientStep([client EXCEPT
                   !.markers = UpdateMarkers(client.markers, client.vehicleData),
                   !.effectPending = FALSE])

(***************************************************************************)
(* Specifications.                                                         *)
(***************************************************************************)
InitProcess ==
  /\ pc = "provider"
  /\ db = GTFSDatabase
  /\ gtfsDB = Null
  /\ listening = FALSE
  /\ exitCode = -1
  /\ warned = {}
  /\ req = NoMessage
  /\ resp = NoMessage
  /\ client = InitialClient

Init == feed \in StartupFeeds /\ InitProcess

InitCalendar == feed \in CalendarFeeds /\ InitProcess

InitVehicles == feed \in VehicleFeeds /\ InitProcess

Next ==
  \/ CreateStorageProvider
  \/ LoadShapes \/ LoadStops \/ LoadRoutes \/ LoadTrips
  \/ LoadCalendar \/ LoadCalendarDates \/ LoadStopTimes
  \/ MissingTable \/ LoadError
  \/ Install \/ ListenerOpen
  \/ GetServicesOnDate \/ GetTripsOnDate \/ GetVehiclesAt
  \/ GetTrip \/ GetHealth
  \/ ConnectionRefused

Spec == Init /\ [][Next]_vars

SpecCalendar == InitCalendar /\ [][Next]_vars

SpecVehicles == InitVehicles /\ [][Next]_vars

InitOvernight == feed \in OvernightFeeds /\ InitProcess

SpecOvernight == InitOvernight /\ [][Next]_vars

InitGeometry == feed \in GeometryFeeds /\ InitProcess

SpecGeometry == InitGeometry /\ [][Next]_vars

InitBlob == feed \in BlobFeeds /\ InitProcess

SpecBlob == InitBlob /\ [][Next]_vars

InitClient == feed \in ClientFeeds /\ InitProcess

NextClient ==
  \/ Next
  \/ handlePlayPause \/ IntervalTick \/ RouteSelectionChanged
  \/ FetchFails \/ FetchCompletes
  \/ MarkersEffect

SpecClient == InitClient /\ [][NextClient]_vars

(***************************************************************************)
(* Vocabulary of the properties: the feed as the reference.                *)
(***************************************************************************)
FeedRows(table) == IF feed.files[table] THEN feed[table] ELSE << >>

RowSet(table) == SeqToSet(FeedRows(table))

ServiceIds == {"s1", "s2", "s3"}

\* The weekday of the dates the clients ask about, from the calendar.
WeekdayOf(dateString) ==
  CASE dateString = DateStr(20250103) -> "friday"
    [] dateString = DateStr(20250104) -> "saturday"
    [] dateString = DateStr(20250105) -> "sunday"
    [] dateString = DateStr(20241231) -> "tuesday"

CalendarCovers(sv, dateString) ==
  \E row \in RowSet("calendar") :
    /\ row.service_id = sv
    /\ parseInt(row.start_date) <= parseInt(dateString)
    /\ parseInt(dateString) <= parseInt(row.end_date)
    /\ row[WeekdayOf(dateString)] = "1"

HasException(sv, dateString, type) ==
  \E row \in RowSet("calendar_dates") :
    row.date = dateString /\ row.service_id = sv /\ row.exception_type = type

ActiveOn(sv, dateString) ==
  \/ CalendarCovers(sv, dateString) /\ ~HasException(sv, dateString, 2)
  \/ HasException(sv, dateString, 1)

Answered(path) == req # NoMessage /\ req.path = path /\ resp.status = 200

\* C1: for every date D asked of /services/on/:date and every service S, the
\* answer contains S exactly when (S has a calendar row that covers D with
\* the flag of D's weekday set, and no REMOVE exception for (D, S)) or an
\* ADD exception for (D, S) exists.
C1_ServicesOnDate ==
  Answered("/services/on/:date") =>
    \A sv \in ServiceIds :
      sv \in SeqToSet(resp.body.service_ids) <=> ActiveOn(sv, req.param)

C1_Witness ==
  /\ Answered("/services/on/:date")
  /\ \E sv \in ServiceIds :
       /\ CalendarCovers(sv, req.param)
       /\ HasException(sv, req.param, 2)
       /\ sv \notin SeqToSet(resp.body.service_ids)
  /\ resp.body.service_ids # << >>

\* C2: the trip ids answered by /trips/on/D are exactly the trips of
\* trips.txt whose service_id is among the services answered by
\* /services/on/D.
C2_TripsOfActiveServices ==
  Answered("/trips/on/:date") =>
    LET services == GetServicesOnDateHandler(gtfsDB, req).body.service_ids
    IN  SeqToSet(resp.body.trip_ids) =
          {row.trip_id : row \in {x \in RowSet("trips") :
                                     x.service_id \in SeqToSet(services)}}

C2_Witness ==
  /\ Answered("/trips/on/:date")
  /\ Len(resp.body.trip_ids) >= 2
  /\ \E row \in RowSet("trips") : row.trip_id \notin SeqToSet(resp.body.trip_ids)

(***************************************************************************)
(* Vocabulary of the properties about /vehicles/at/:datetime.              *)
(***************************************************************************)
QueryDate == SubSeq(req.param, 1, 4) \o SubSeq(req.param, 6, 7) \o SubSeq(req.param, 9, 10)

\* t, the second of the day of the datetime asked
QueryT ==
  parseInt(SubSeq(req.param, 12, 13)) * 3600
  + parseInt(SubSeq(req.param, 15, 16)) * 60 + parseInt(SubSeq(req.param, 18, 19))

Features == SeqToSet(resp.body.vehicles)

FeaturesOf(trip) == {f \in Features : f.properties.trip_id = trip}

ActiveTrips ==
  {row.trip_id : row \in {x \in RowSet("trips") : ActiveOn(x.service_id, QueryDate)}}

StopTimeRowsOf(trip) == {row \in RowSet("stop_times") : row.trip_id = trip}

FirstRow(rows) ==
  CHOOSE r \in rows : \A q \in rows : r.stop_sequence <= q.stop_sequence

LastRow(rows) ==
  CHOOSE r \in rows : \A q \in rows : r.stop_sequence >= q.stop_sequence

InWindow(trip) ==
  /\ StopTimeRowsOf(trip) # {}
  /\ timeToSeconds(FirstRow(StopTimeRowsOf(trip)).arrival_time) <= QueryT
  /\ QueryT <= timeToSeconds(LastRow(StopTimeRowsOf(trip)).departure_time)

\* the stop times of the trip with arrival <= t <= departure
Matching(trip) ==
  {row \in StopTimeRowsOf(trip) :
     /\ timeToSeconds(row.arrival_time) <= QueryT
     /\ QueryT <= timeToSeconds(row.departure_time)}

StopResolves(stopId) == \E srow \in RowSet("stops") : srow.stop_id = stopId

\* C3: a trip appears in the answer of /vehicles/at only if it has stop
\* times and first arrival <= t <= last departure.
C3_OnlyInsideWindow ==
  Answered("/vehicles/at/:datetime") =>
    \A f \in Features : InWindow(f.properties.trip_id)

C3_Witness ==
  /\ Answered("/vehicles/at/:datetime")
  /\ Features # {}
  /\ \E trip \in ActiveTrips :
       /\ StopTimeRowsOf(trip) # {}
       /\ ~InWindow(trip)
       /\ Matching(trip) # {}
       /\ FeaturesOf(trip) = {}

AtStopFeature(f, row) ==
  /\ f.properties.status = "at_stop"
  /\ f.properties.stop_id = row.stop_id
  /\ \E srow \in RowSet("stops") :
       /\ srow.stop_id = row.stop_id
       /\ f.geometry.coordinates = <<Rat(srow.stop_lon), Rat(srow.stop_lat)>>

\* C4 as stated: a trip inside its window with a stop time such that
\* arrival <= t <= departure gets an at_stop feature with the stop_id and
\* the [lon, lat] of the first such stop time.
C4_AtStopAsStated ==
  Answered("/vehicles/at/:datetime") =>
    \A trip \in ActiveTrips :
      (InWindow(trip) /\ Matching(trip) # {}) =>
        /\ FeaturesOf(trip) # {}
        /\ \A f \in FeaturesOf(trip) : AtStopFeature(f, FirstRow(Matching(trip)))

\* C4 amended: the same, for the trips whose first such stop time names a
\* stop of stops.txt.
C4_AtStop ==
  Answered("/vehicles/at/:datetime") =>
    \A trip \in ActiveTrips :
      ( /\ InWindow(trip)
        /\ Matching(trip) # {}
        /\ StopResolves(FirstRow(Matching(trip)).stop_id) ) =>
        /\ FeaturesOf(trip) # {}
        /\ \A f \in FeaturesOf(trip) : AtStopFeature(f, FirstRow(Matching(trip)))

C4_Witness ==
  /\ Answered("/vehicles/at/:datetime")
  /\ \E trip \in ActiveTrips :
       /\ InWindow(trip)
       /\ Cardinality(Matching(trip)) >= 2
       /\ StopResolves(FirstRow(Matching(trip)).stop_id)
       /\ \E f \in FeaturesOf(trip) : f.properties.status = "at_stop"

\* The loaded stop times of a trip, in stop_sequence order, and the
\* consecutive pairs with departure[i] < t < arrival[i+1].
LoadedStopTimes(trip) ==
  IF MapHas(gtfsDB.stopTimes, trip) THEN MapGet(gtfsDB.stopTimes, trip) ELSE << >>

Pairs(trip) ==
  {i \in 1..(Len(LoadedStopTimes(trip)) - 1) :
     /\ timeToSeconds(LoadedStopTimes(trip)[i].departure_time) < QueryT
     /\ QueryT < timeToSeconds(LoadedStopTimes(trip)[i + 1].arrival_time)}

FirstPair(trip) == CHOOSE i \in Pairs(trip) : \A k \in Pairs(trip) : i <= k

\* shape_dist[i] + ((t - departure[i]) / (arrival[i+1] - departure[i]))
\*               * (shape_dist[i+1] - shape_dist[i])
Interpolated(trip, i) ==
  LET st  == LoadedStopTimes(trip)
      dep == timeToSeconds(st[i].departure_time)
      arr == timeToSeconds(st[i + 1].arrival_time)
  IN  [n |-> st[i].shape_dist_traveled * (arr - dep)
             + (QueryT - dep) * (st[i + 1].shape_dist_traveled - st[i].shape_dist_traveled),
       d |-> arr - dep]

InTransitFeature(f, trip, i) ==
  /\ f.properties.status = "in_transit"
  /\ f.properties.from_stop_id = LoadedStopTimes(trip)[i].stop_id
  /\ f.properties.to_stop_id = LoadedStopTimes(trip)[i + 1].stop_id
  /\ RatEq(f.properties.shape_dist_traveled, Interpolated(trip, i))

BetweenStops(trip) ==
  trip \in ActiveTrips /\ InWindow(trip) /\ Matching(trip) = {} /\ Pairs(trip) # {}

\* some segment of the trip's loaded shape brackets the distance
HasBracket(trip, distance) ==
  LET shapePoints == ShapePointsOf(gtfsDB, trip)
  IN  \E j \in 1..(Len(shapePoints) - 1) :
        /\ RatLE(Rat(shapePoints[j].distance), distance)
        /\ RatLE(distance, Rat(shapePoints[j + 1].distance))

\* C5 as stated: when no stop matches, the pair (i, i+1) with
\* departure[i] < t < arrival[i+1] is used and an in_transit feature with
\* from_stop_id, to_stop_id and the interpolated shape_dist_traveled is
\* emitted.
C5_InTransitAsStated ==
  Answered("/vehicles/at/:datetime") =>
    \A trip \in ActiveTrips :
      BetweenStops(trip) =>
        /\ FeaturesOf(trip) # {}
        /\ \A f \in FeaturesOf(trip) : InTransitFeature(f, trip, FirstPair(trip))

\* C5 amended: every feature emitted for such a trip is that in_transit
\* feature, and it is emitted when a segment of the trip's shape brackets
\* the interpolated distance.
C5_InTransit ==
  Answered("/vehicles/at/:datetime") =>
    \A trip \in ActiveTrips :
      BetweenStops(trip) =>
        /\ HasBracket(trip, Interpolated(trip, FirstPair(trip))) => FeaturesOf(trip) # {}
        /\ \A f \in FeaturesOf(trip) : InTransitFeature(f, trip, FirstPair(trip))

C5_Witness ==
  /\ Answered("/vehicles/at/:datetime")
  /\ \E trip \in ActiveTrips :
       /\ BetweenStops(trip)
       /\ \E f \in FeaturesOf(trip) :
            /\ f.properties.status = "in_transit"
            /\ ~RatEq(f.properties.shape_dist_traveled,
                      Rat(LoadedStopTimes(trip)[FirstPair(trip)].shape_dist_traveled))
            /\ f.properties.from_stop_id # f.properties.to_stop_id

\* C6: the vehicles value is keyed by trip_id (every key is the trip_id of
\* the feature under it) and vehicle_count is the number of keys.
C6_KeyedByTripId ==
  Answered("/vehicles/at/:datetime") =>
    /\ \A i \in 1..Len(resp.body.vehicles) :
         resp.body.vehicles[i].properties.trip_id = ToString(i - 1)
    /\ resp.body.vehicle_count = Cardinality(ObjectKeys(resp.body.vehicles))

RouteIdOf(trip) == (CHOOSE row \in RowSet("trips") : row.trip_id = trip).route_id

\* C7: with a routes filter, no feature of the answer belongs to a trip
\* whose route_id is outside the given set.
C7_RouteFilter ==
  (Answered("/vehicles/at/:datetime") /\ req.routes # Null) =>
    \A f \in Features : RouteIdOf(f.properties.trip_id) \in SeqToSet(req.routes.ids)

VehiclesFor(routes) ==
  LET answer == GetVehiclesAtHandler(gtfsDB, [req EXCEPT !.routes = routes])
  IN  IF answer.status = 200 THEN SeqToSet(answer.body.vehicles) ELSE {}

C9_NotReady503 ==
  (req # NoMessage /\ gtfsDB = Null) => resp.status = 503

TableLoaded(g, table) ==
  CASE table = "shapes" -> g.shapes = loadShapes(feed.shapes)
    [] table = "stops" -> g.stops = loadStops(feed.stops)
    [] table = "routes" -> g.routes = loadRoutes(feed.routes)
    [] table = "trips" -> /\ g.trips = loadTripsMap(feed.trips)
                          /\ g.tripsByService = loadTripsByService(feed.trips)
    [] table = "calendar" -> g.calendar = loadCalendar(feed.calendar)
    [] table = "calendar_dates" -> g.calendarDates = loadCalendarDates(feed.calendar_dates)
    [] table = "stop_times" -> /\ g.stopTimes # << >>
                               /\ g.stopTimes = loadStopTimes(g, feed.stop_times)

TableSkipped(g, table) ==
  /\ table \in warned
  /\ CASE table = "shapes" -> g.shapes = << >>
       [] table = "stops" -> g.stops = << >>
       [] table = "routes" -> g.routes = << >>
       [] table = "trips" -> g.trips = << >> /\ g.tripsByService = << >>
       [] table = "calendar" -> g.calendar = << >>
       [] table = "calendar_dates" -> g.calendarDates = << >>
       [] table = "stop_times" -> g.stopTimes = << >>

FullyLoaded(g) ==
  /\ g # Null
  /\ \A table \in TableSet :
       IF feed.files[table] THEN TableLoaded(g, table) ELSE TableSkipped(g, table)

\* C10: whenever the listener is open, loadGTFSData has gone through all
\* seven tables and gtfsDB is the complete dataset; every answer a handler
\* has given was computed on the complete dataset.
C10_ListenAfterLoad ==
  /\ listening => (pc = "serving" /\ FullyLoaded(gtfsDB))
  /\ (resp # NoMessage /\ resp.status # 0) => (listening /\ FullyLoaded(gtfsDB))

C10_Witness ==
  /\ listening
  /\ warned # {}
  /\ feed.files["stop_times"]
  /\ req # NoMessage /\ req.path = "/health" /\ resp.status = 200

(***************************************************************************)
(* Vocabulary of the properties about the start-up.                        *)
(***************************************************************************)
Stages == <<"provider">> \o Tables \o <<"install", "binding", "serving">>

StageIndex(stage) == CHOOSE i \in 1..Len(Stages) : Stages[i] = stage

\* the start-up is past the step of this table and has not exited
Past(table) == pc # "exited" /\ StageIndex(pc) > StageIndex(table)

\* some step fails: the provider cannot be created, or the stream of a
\* table that is present emits an error
Failing ==
  \/ feed.failing = "provider"
  \/ feed.failing \in TableSet /\ feed.files[feed.failing]

\* C11: when creating the storage provider or reading a table fails, the
\* start-up never goes past the failing step other than by exiting with
\* code 1; the listener is never open, the dataset is never installed and
\* no request is ever answered.
C11_FailFast ==
  /\ exitCode \in {-1, 1}
  /\ exitCode = 1 <=> pc = "exited"
  /\ Failing =>
       /\ ~listening
       /\ gtfsDB = Null
       /\ resp # NoMessage => resp.status = 0
       /\ pc # "exited" => StageIndex(pc) <= StageIndex(feed.failing)

C11_Witness ==
  /\ exitCode = 1
  /\ feed.failing = "trips"
  /\ db.stops # << >>
  /\ db.trips = << >>
  /\ req # NoMessage

\* C12: a table whose file is absent is reported by a warning and its index
\* stays empty; the tables after it are loaded, and an absent file never
\* makes the process exit.
C12_MissingTableSkipped ==
  /\ \A table \in TableSet :
       Past(table) =>
         IF feed.files[table] THEN TableLoaded(db, table) ELSE TableSkipped(db, table)
  /\ warned \subseteq {table \in TableSet : ~feed.files[table]}
  /\ ~Failing => exitCode = -1

C12_Witness ==
  /\ listening
  /\ warned = TableSet \ {"trips"}
  /\ feed.failing = "shapes"
  /\ gtfsDB.trips # << >>
  /\ gtfsDB.shapes = << >>
  /\ req # NoMessage /\ req.path = "/health" /\ resp.status = 200

\* C13: gtfsDB is written by one step only, the assignment of the loaded
\* dataset after the last table, and from then on no step (a request to any
\* endpoint included) changes the dataset or any value stored in it.
C13_WrittenOnce ==
  [][ /\ gtfsDB' # gtfsDB => (gtfsDB = Null /\ pc = "install" /\ gtfsDB' = db)
      /\ gtfsDB # Null => (gtfsDB' = gtfsDB /\ db' = db) ]_vars

C13_Witness ==
  /\ gtfsDB # Null
  /\ gtfsDB = db
  /\ FullyLoaded(gtfsDB)
  /\ Answered("/vehicles/at/:datetime")
  /\ Features # {}

\* the answer of the route handler of r.path on the dataset g
HandlerAnswer(g, r) ==
  CASE r.path = "/services/on/:date" -> GetServicesOnDateHandler(g, r)
    [] r.path = "/trips/on/:date" -> GetTripsOnDateHandler(g, r)
    [] r.path = "/vehicles/at/:datetime" -> GetVehiclesAtHandler(g, r)
    [] r.path = "/trips/:id" -> GetTripHandler(g, r)
    [] r.path = "/health" -> GetHealthHandler(g, r)

EightDigits(param) ==
  Len(param) = 8 /\ \A i \in 1..8 : CharCode(param[i]) \in 48..57

\* YYYY-MM-DDTHH:MM:SS
IsoShape(param) ==
  /\ Len(param) = 19
  /\ \A i \in 1..19 :
       CASE i \in {5, 8} -> param[i] = "-"
         [] i = 11 -> param[i] = "T"
         [] i \in {14, 17} -> param[i] = ":"
         [] OTHER -> CharCode(param[i]) \in 48..57

ErrorOnly(response) == DOMAIN response.body = {"error"}

BadRequest ==
  \/ /\ req.path \in {"/services/on/:date", "/trips/on/:date"}
     /\ ~EightDigits(req.param)
  \/ /\ req.path = "/vehicles/at/:datetime"
     /\ (IsoShape(req.param) => DateParse(req.param).isNaN)

\* C15: a request to /services/on or /trips/on whose date is not eight
\* digits, and a request to /vehicles/at whose datetime has not the shape
\* YYYY-MM-DDTHH:MM:SS or does not parse, is answered 400 with a body that
\* holds only an error; the answer is the one the handler gives without a
\* dataset, so no resolver ran for it.
C15_BadRequest400 ==
  (req # NoMessage /\ resp.status # 0 /\ BadRequest) =>
    /\ resp.status = 400
    /\ ErrorOnly(resp)
    /\ resp = HandlerAnswer(Null, req)

C15_Witness ==
  /\ req # NoMessage
  /\ req.path = "/vehicles/at/:datetime"
  /\ IsoShape(req.param)
  /\ DateParse(req.param).isNaN
  /\ resp.status = 400
  /\ gtfsDB # Null /\ gtfsDB.stopTimes # << >>

(***************************************************************************)
(* Vocabulary of the properties about dangling references.                 *)
(***************************************************************************)
ShapeIdOf(trip) == (CHOOSE row \in RowSet("trips") : row.trip_id = trip).shape_id

ShapeResolves(trip) ==
  /\ ShapeIdOf(trip) # ""
  /\ \E row \in RowSet("shapes") : row.shape_id = ShapeIdOf(trip)

\* at t the trip depends on a reference that does not resolve: it has no
\* stop times, or it stands at a stop that is not in stops.txt, or it is
\* between stops and its shape is not in shapes.txt
Dangling(trip) ==
  \/ StopTimeRowsOf(trip) = {}
  \/ /\ InWindow(trip)
     /\ Matching(trip) # {}
     /\ ~StopResolves(FirstRow(Matching(trip)).stop_id)
  \/ /\ InWindow(trip)
     /\ Matching(trip) = {}
     /\ ~ShapeResolves(trip)

\* C16: dangling references make neither the load nor a query fail: the
\* process exits only on a read error, an accepted /vehicles/at request is
\* answered 200, a trip that depends on a dangling reference has no feature
\* in the answer, and a trip standing at a stop of stops.txt has its feature
\* whatever the other trips refer to.
C16_DanglingSkipped ==
  /\ ~Failing => exitCode = -1
  /\ ( /\ req # NoMessage
       /\ req.path = "/vehicles/at/:datetime"
       /\ resp.status # 0
       /\ ~BadRequest ) =>
       /\ resp.status = 200
       /\ \A trip \in ActiveTrips :
            /\ Dangling(trip) => FeaturesOf(trip) = {}
            /\ ( /\ InWindow(trip)
                 /\ Matching(trip) # {}
                 /\ StopResolves(FirstRow(Matching(trip)).stop_id) ) =>
                 FeaturesOf(trip) # {}

C16_Witness ==
  /\ Answered("/vehicles/at/:datetime")
  /\ \E t1, t2 \in ActiveTrips :
       /\ InWindow(t1)
       /\ Matching(t1) # {}
       /\ ~StopResolves(FirstRow(Matching(t1)).stop_id)
       /\ ~ShapeResolves(t1)
       /\ FeaturesOf(t1) = {}
       /\ FeaturesOf(t2) # {}

\* the resolver reaches a stop time whose arrival_time is undefined: some
\* trip active on the date asked has stop times, and the first has none
UnreadableTimes ==
  \E trip \in ActiveTrips :
    /\ StopTimeRowsOf(trip) # {}
    /\ FirstRow(StopTimeRowsOf(trip)).arrival_time = NoTime

\* C17: every answer of a handler has status 200, 400, 404 or 500, and every
\* answer other than 200 has a body whose only field is error; an accepted
\* /vehicles/at request whose resolver call throws is answered 500; after a
\* 500 the listener stays open, the process keeps running, and the next
\* request gets the answer its endpoint gives on the dataset.
C17_ErrorsCaught ==
  /\ []( (req # NoMessage /\ resp.status # 0) =>
           /\ resp.status \in {200, 400, 404, 500}
           /\ resp.status # 200 => ErrorOnly(resp)
           /\ ( /\ req.path = "/vehicles/at/:datetime"
                /\ ~BadRequest
                /\ UnreadableTimes ) => resp.status = 500 )
  /\ [][ (resp # NoMessage /\ resp.status = 500) =>
           /\ listening'
           /\ exitCode' = -1
           /\ resp' = HandlerAnswer(gtfsDB, req') ]_vars

C17_Witness ==
  /\ req # NoMessage
  /\ req.path = "/vehicles/at/:datetime"
  /\ resp.status = 500
  /\ ErrorOnly(resp)
  /\ UnreadableTimes
  /\ listening
  /\ exitCode = -1

(***************************************************************************)
(* Vocabulary of the properties about the loaded shapes and stop times.    *)
(***************************************************************************)
ShapeRowsOf(id) == {row \in RowSet("shapes") : row.shape_id = id}

\* C18: in the installed dataset every shape of shapes.txt has exactly the
\* points of its rows, in shape_pt_sequence order; the first cumulative
\* distance is 0 and every later one is the previous one plus the length of
\* the segment, hence not smaller; the shape_dist_traveled of the file has
\* no part in it.
C18_ShapeDistances ==
  gtfsDB # Null =>
    /\ {gtfsDB.shapes[k].k : k \in 1..Len(gtfsDB.shapes)}
         = {row.shape_id : row \in RowSet("shapes")}
    /\ \A k \in 1..Len(gtfsDB.shapes) :
         LET points == gtfsDB.shapes[k].v
             rows   == ShapeRowsOf(gtfsDB.shapes[k].k)
         IN  /\ Len(points) = Cardinality(rows)
             /\ {<<points[i].sequence, points[i].lat, points[i].lon>> :
                    i \in 1..Len(points)}
                  = {<<row.shape_pt_sequence, row.shape_pt_lat, row.shape_pt_lon>> :
                       row \in rows}
             /\ points[1].distance = 0
             /\ \A i \in 1..(Len(points) - 1) :
                  /\ points[i].sequence <= points[i + 1].sequence
                  /\ points[i + 1].distance
                       = points[i].distance + Abs(points[i + 1].lat - points[i].lat)
                  /\ points[i].distance <= points[i + 1].distance

C18_Witness ==
  /\ gtfsDB # Null
  /\ \E k \in 1..Len(gtfsDB.shapes) :
       LET points == gtfsDB.shapes[k].v
       IN  /\ Len(points) = 3
           /\ points[3].distance = 8
           /\ points[3].lat = points[1].lat
           /\ \A row \in ShapeRowsOf(gtfsDB.shapes[k].k) :
                \A i \in 1..3 : points[i].distance # row.shape_dist_traveled

\* C19: in the installed dataset, for every trip and every two consecutive
\* stop times in stop_sequence order, the shape_dist of the first is not
\* greater than the shape_dist of the second.
C19_StopDistancesMonotone ==
  gtfsDB # Null =>
    \A k \in 1..Len(gtfsDB.stopTimes) :
      LET times == gtfsDB.stopTimes[k].v
      IN  \A i \in 1..(Len(times) - 1) :
            times[i].shape_dist_traveled <= times[i + 1].shape_dist_traveled

(***************************************************************************)
(* Vocabulary of the properties about service past midnight.               *)
(***************************************************************************)
\* seconds of HH:MM:SS counted from 00:00:00, hours above 23 included
RawSeconds(timeStr) ==
  LET n(str) == (CharCode(str[1]) - 48) * 10 + (CharCode(str[2]) - 48)
  IN  n(timeStr[1]) * 3600 + n(timeStr[2]) * 60 + n(timeStr[3])

\* the second of the day of the datetime asked, 0..86399 (24:00:00 is the
\* first second of the following day)
ClockT ==
  ((parseInt(SubSeq(req.param, 12, 13)) % 24) * 3600)
  + parseInt(SubSeq(req.param, 15, 16)) * 60 + parseInt(SubSeq(req.param, 18, 19))

TripsWithStopTimes == {row.trip_id : row \in RowSet("stop_times")}

FirstArrival(trip) == RawSeconds(FirstRow(StopTimeRowsOf(trip)).arrival_time)

LastDeparture(trip) == RawSeconds(LastRow(StopTimeRowsOf(trip)).departure_time)

\* C20: the stop times are compared as raw seconds with the second of the
\* day t of the accepted datetime: a trip is answered only if its first
\* arrival <= t <= its last departure in raw seconds, so a trip whose first
\* arrival is at 24:00:00 or later is never answered; and a trip that
\* stands at a stop of stops.txt at t, in raw seconds, is answered also when
\* its last departure is past 24:00:00.
C20_RawSeconds ==
  Answered("/vehicles/at/:datetime") =>
    /\ ClockT \in 0..86399
    /\ \A f \in Features :
         /\ FirstArrival(f.properties.trip_id) < 86400
         /\ FirstArrival(f.properties.trip_id) <= ClockT
         /\ ClockT <= LastDeparture(f.properties.trip_id)
    /\ \A trip \in TripsWithStopTimes :
         ( \E row \in StopTimeRowsOf(trip) :
             /\ FirstArrival(trip) <= ClockT
             /\ ClockT <= LastDeparture(trip)
             /\ RawSeconds(row.arrival_time) <= ClockT
             /\ ClockT <= RawSeconds(row.departure_time) ) =>
           FeaturesOf(trip) # {}

\* asked on the following day at the clock time at which a trip that starts
\* at or after 24:00:00 stands at its first stop
C20_Witness ==
  /\ Answered("/vehicles/at/:datetime")
  /\ QueryDate = DateStr(20250104)
  /\ \E trip \in TripsWithStopTimes :
       /\ FirstArrival(trip) >= 86400
       /\ FirstArrival(trip) - 86400 <= ClockT
       /\ ClockT <= RawSeconds(FirstRow(StopTimeRowsOf(trip)).departure_time) - 86400
       /\ FeaturesOf(trip) = {}

(***************************************************************************)
(* Vocabulary of the properties about the geometry of a position.          *)
(***************************************************************************)
\* the segments (j, j+1) of the trip's loaded shape with
\* cumulative_distance[j] <= distance <= cumulative_distance[j+1]
Brackets(trip, distance) ==
  LET shapePoints == ShapePointsOf(gtfsDB, trip)
  IN  {j \in 1..(Len(shapePoints) - 1) :
         /\ RatLE(Rat(shapePoints[j].distance), distance)
         /\ RatLE(distance, Rat(shapePoints[j + 1].distance))}

FirstBracket(trip, distance) ==
  CHOOSE j \in Brackets(trip, distance) : \A k \in Brackets(trip, distance) : j <= k

SegmentLength(trip, j) ==
  ShapePointsOf(gtfsDB, trip)[j + 1].distance - ShapePointsOf(gtfsDB, trip)[j].distance

\* (distance - cumulative_distance[j]) / (cumulative_distance[j+1]
\* - cumulative_distance[j]) on the first bracketing segment, 0 when the
\* segment has no length
Fraction(trip, distance) ==
  LET j == FirstBracket(trip, distance)
  IN  IF SegmentLength(trip, j) = 0 THEN Rat(0)
      ELSE [n |-> distance.n - ShapePointsOf(gtfsDB, trip)[j].distance * distance.d,
            d |-> SegmentLength(trip, j) * distance.d]

\* from + (to - from) * fraction
Lerp(from, to, fraction) ==
  [n |-> from * fraction.d + (to - from) * fraction.n, d |-> fraction.d]

OnShape(f) ==
  LET trip     == f.properties.trip_id
      distance == f.properties.shape_dist_traveled
      j        == FirstBracket(trip, distance)
      before   == ShapePointsOf(gtfsDB, trip)[j]
      after    == ShapePointsOf(gtfsDB, trip)[j + 1]
  IN  /\ Brackets(trip, distance) # {}
      /\ RatLE(Rat(0), Fraction(trip, distance))
      /\ RatLE(Fraction(trip, distance), Rat(1))
      /\ RatEq(f.geometry.coordinates[1],
               Lerp(before.lon, after.lon, Fraction(trip, distance)))
      /\ RatEq(f.geometry.coordinates[2],
               Lerp(before.lat, after.lat, Fraction(trip, distance)))

AtItsStop(f) ==
  \E srow \in RowSet("stops") :
    /\ srow.stop_id = f.properties.stop_id
    /\ f.geometry.coordinates = <<Rat(srow.stop_lon), Rat(srow.stop_lat)>>

\* C21: every feature of an answer of /vehicles/at lies on the geometry of
\* its trip: an at_stop feature has exactly the coordinates of its stop; an
\* in_transit feature is the linear interpolation between the shape points
\* j and j+1 of the first segment that brackets its expected distance, with
\* the fraction (expected - cum[j]) / (cum[j+1] - cum[j]), 0 when the
\* segment has no length, and the fraction is in [0, 1].
C21_OnGeometry ==
  Answered("/vehicles/at/:datetime") =>
    \A f \in Features :
      /\ f.properties.status \in {"at_stop", "in_transit"}
      /\ f.properties.status = "at_stop" => AtItsStop(f)
      /\ f.properties.status = "in_transit" => OnShape(f)

\* one answer with a feature on a segment without length and a feature
\* strictly inside a segment
C21_Witness ==
  /\ Answered("/vehicles/at/:datetime")
  /\ \E f, g \in Features :
       /\ f.properties.status = "in_transit"
       /\ g.properties.status = "in_transit"
       /\ SegmentLength(f.properties.trip_id,
                        FirstBracket(f.properties.trip_id,
                                     f.properties.shape_dist_traveled)) = 0
       /\ ~RatLE(Fraction(g.properties.trip_id, g.properties.shape_dist_traveled),
                 Rat(0))
       /\ ~RatLE(Rat(1),
                 Fraction(g.properties.trip_id, g.properties.shape_dist_traveled))

(***************************************************************************)
(* Vocabulary of the properties about the order of the load.               *)
(***************************************************************************)
\* the indices of the dataset that the load of a table fills
IndexOf(g, table) ==
  CASE table = "shapes" -> <<g.shapes>>
    [] table = "stops" -> <<g.stops>>
    [] table = "routes" -> <<g.routes>>
    [] table = "trips" -> <<g.trips, g.tripsByService>>
    [] table = "calendar" -> <<g.calendar>>
    [] table = "calendar_dates" -> <<g.calendarDates>>
    [] table = "stop_times" -> <<g.stopTimes>>

Settled(g, table) ==
  IF feed.files[table] THEN TableLoaded(g, table) ELSE TableSkipped(g, table)

\* C22: the load takes the tables one after another in the order shapes,
\* stops, routes, trips, calendar, calendar exceptions, stop times: a step
\* of the load goes from a table to the one after it, an index changes only
\* in the step of its own table, and the step of stop_times runs on the
\* final indices of shapes, stops and trips.
C22_TablesInOrder ==
  [][ /\ (pc \in TableSet /\ pc' \notin {pc, "exited"}) =>
           StageIndex(pc') = StageIndex(pc) + 1
      /\ \A table \in TableSet :
           IndexOf(db', table) # IndexOf(db, table) => pc = table
      /\ db'.stopTimes # db.stopTimes =>
           /\ \A table \in {"shapes", "stops", "trips"} : Settled(db, table)
           /\ \A table \in {"shapes", "stops", "trips"} :
                IndexOf(db', table) = IndexOf(db, table)
           /\ db'.stopTimes = loadStopTimes(db, feed.stop_times) ]_vars

C22_Witness ==
  /\ pc = "install"
  /\ warned = {"routes"}
  /\ TableLoaded(db, "shapes") /\ TableLoaded(db, "stops") /\ TableLoaded(db, "trips")
  /\ TableLoaded(db, "stop_times")
  /\ \E k \in 1..Len(db.stopTimes) :
       \E i \in 1..Len(db.stopTimes[k].v) : db.stopTimes[k].v[i].shape_dist_traveled = 4

\* C23: at-stop comes first: when some stop time of a trip has
\* arrival <= t <= departure, the answer has no in_transit feature for the
\* trip, also when a pair with departure[i] < t < arrival[i+1] exists and
\* also when the stop of the matching stop time is not in stops.txt.
C23_AtStopFirst ==
  Answered("/vehicles/at/:datetime") =>
    \A trip \in ActiveTrips :
      (StopTimeRowsOf(trip) # {} /\ Matching(trip) # {}) =>
        \A f \in FeaturesOf(trip) : f.properties.status # "in_transit"

\* the trip has no shape_id, or its shape is not in shapes.txt, or no
\* segment of its shape brackets the expected distance
NoUsableShape(trip) ==
  \/ ~ShapeResolves(trip)
  \/ Brackets(trip, Interpolated(trip, FirstPair(trip))) = {}

\* C24: a trip that is between two stops at t and has no shape_id, a shape
\* that is not in shapes.txt, or no segment that brackets the expected
\* distance gets no feature and the request is answered 200; the other
\* trips between two stops have their feature.
C24_SkippedSilently ==
  (req # NoMessage /\ req.path = "/vehicles/at/:datetime" /\ resp.status # 0) =>
    /\ resp.status = 200
    /\ \A trip \in ActiveTrips :
         BetweenStops(trip) =>
           IF NoUsableShape(trip) THEN FeaturesOf(trip) = {}
                                  ELSE FeaturesOf(trip) # {}

C24_Witness ==
  /\ Answered("/vehicles/at/:datetime")
  /\ \E t, u \in ActiveTrips :
       /\ BetweenStops(t) /\ ShapeIdOf(t) = "" /\ FeaturesOf(t) = {}
       /\ BetweenStops(u) /\ FeaturesOf(u) # {}
       /\ resp.body.vehicles[Len(resp.body.vehicles)].properties.trip_id = u

\* a shape of one point: the shape is known, no segment exists
C24_NoBracket ==
  /\ Answered("/vehicles/at/:datetime")
  /\ \E t \in ActiveTrips :
       /\ BetweenStops(t) /\ ShapeResolves(t)
       /\ Len(ShapePointsOf(gtfsDB, t)) = 1
       /\ FeaturesOf(t) = {}

(***************************************************************************)
(* Vocabulary of the properties about the distances of the stop times.     *)
(***************************************************************************)
StopRowOf(stopId) == CHOOSE srow \in RowSet("stops") : srow.stop_id = stopId

\* the distance from the stop to the point j of the trip's loaded shape
DistanceToPoint(trip, stopId, j) ==
  Abs(ShapePointsOf(gtfsDB, trip)[j].lat - StopRowOf(stopId).stop_lat)

\* the points of the trip's shape at minimum distance from the stop
Nearest(trip, stopId) ==
  {j \in 1..Len(ShapePointsOf(gtfsDB, trip)) :
     \A k \in 1..Len(ShapePointsOf(gtfsDB, trip)) :
       DistanceToPoint(trip, stopId, j) <= DistanceToPoint(trip, stopId, k)}

LowestNearest(trip, stopId) ==
  CHOOSE j \in Nearest(trip, stopId) : \A k \in Nearest(trip, stopId) : j <= k

\* C25: in the installed dataset, for every trip whose shape is in
\* shapes.txt and every stop time of it whose stop is in stops.txt,
\* shape_dist is the cumulative distance of the shape point at minimum
\* distance from the stop, the one with the lowest index when several
\* points are at that distance.
C25_NearestPoint ==
  gtfsDB # Null =>
    \A k \in 1..Len(gtfsDB.stopTimes) :
      LET trip  == gtfsDB.stopTimes[k].k
          times == gtfsDB.stopTimes[k].v
      IN  (trip \in {row.trip_id : row \in RowSet("trips")} /\ ShapeResolves(trip)) =>
            \A i \in 1..Len(times) :
              StopResolves(times[i].stop_id) =>
                times[i].shape_dist_traveled
                  = ShapePointsOf(gtfsDB, trip)[LowestNearest(trip, times[i].stop_id)].distance

\* a stop with several nearest points that have different cumulative
\* distances
C25_Witness ==
  /\ gtfsDB # Null
  /\ \E k \in 1..Len(gtfsDB.stopTimes) :
       LET trip  == gtfsDB.stopTimes[k].k
           times == gtfsDB.stopTimes[k].v
       IN  /\ ShapeResolves(trip)
           /\ \E i \in 1..Len(times) :
                /\ StopResolves(times[i].stop_id)
                /\ \E j \in Nearest(trip, times[i].stop_id) :
                     ShapePointsOf(gtfsDB, trip)[j].distance
                       > times[i].shape_dist_traveled

\* C27 as stated: in the installed dataset the cumulative distances of
\* every shape are strictly increasing along the points, also when two
\* consecutive points have the same coordinates.
C27_StrictlyIncreasing ==
  gtfsDB # Null =>
    \A k \in 1..Len(gtfsDB.shapes) :
      LET points == gtfsDB.shapes[k].v
      IN  \A i \in 1..(Len(points) - 1) : points[i].distance < points[i + 1].distance

\* C27 amended: the cumulative distances of every shape never decrease
\* along the points, and two consecutive points with the same coordinates
\* have the same cumulative distance.
C27_NonDecreasing ==
  gtfsDB # Null =>
    \A k \in 1..Len(gtfsDB.shapes) :
      LET points == gtfsDB.shapes[k].v
      IN  \A i \in 1..(Len(points) - 1) :
            /\ ~(points[i + 1].distance < points[i].distance)
            /\ (points[i].lat = points[i + 1].lat /\ points[i].lon = points[i + 1].lon)
                 => points[i + 1].distance = points[i].distance

\* a shape with a repeated point in the middle and longer segments around it
C27_Witness ==
  /\ gtfsDB # Null
  /\ \E k \in 1..Len(gtfsDB.shapes) :
       LET points == gtfsDB.shapes[k].v
       IN  /\ Len(points) = 4
           /\ points[2].distance = points[3].distance
           /\ points[1].distance < points[2].distance
           /\ points[3].distance < points[4].distance

(***************************************************************************)
(* Vocabulary of the properties about the cases of the resolver.           *)
(***************************************************************************)
\* arrival[i] <= departure[i] <= arrival[i+1] along the trip
Monotone(trip) ==
  LET st == LoadedStopTimes(trip)
  IN  \A i \in 1..Len(st) :
        /\ timeToSeconds(st[i].arrival_time) <= timeToSeconds(st[i].departure_time)
        /\ i < Len(st) =>
             timeToSeconds(st[i].departure_time) <= timeToSeconds(st[i + 1].arrival_time)

\* the places of the trip's features in the vehicles of the answer
FeaturePlaces(trip) ==
  {n \in 1..Len(resp.body.vehicles) : resp.body.vehicles[n].properties.trip_id = trip}

\* C28: for a trip with arrival[i] <= departure[i] <= arrival[i+1] and t
\* inside its window, either some stop time has arrival <= t <= departure
\* and no pair has departure[i] < t < arrival[i+1], or no stop time has and
\* exactly one pair has, and the time between the two stops of that pair is
\* positive; the answer has at most one feature for the trip, at_stop in
\* the first case and in_transit between that pair in the second.
C28_OneCase ==
  Answered("/vehicles/at/:datetime") =>
    \A trip \in ActiveTrips :
      (InWindow(trip) /\ Monotone(trip)) =>
        /\ Cardinality(FeaturePlaces(trip)) <= 1
        /\ IF Matching(trip) # {}
             THEN /\ Pairs(trip) = {}
                  /\ \A f \in FeaturesOf(trip) : f.properties.status = "at_stop"
             ELSE /\ Cardinality(Pairs(trip)) = 1
                  /\ \A i \in Pairs(trip) :
                       /\ timeToSeconds(LoadedStopTimes(trip)[i + 1].arrival_time)
                            - timeToSeconds(LoadedStopTimes(trip)[i].departure_time) > 0
                       /\ \A f \in FeaturesOf(trip) : InTransitFeature(f, trip, i)

\* one answer with a trip at a stop without dwell that two of its stop
\* times name, and a trip between two stops
C28_Witness ==
  /\ Answered("/vehicles/at/:datetime")
  /\ \E t, u \in ActiveTrips :
       /\ InWindow(t) /\ Monotone(t)
       /\ Cardinality(Matching(t)) = 2
       /\ Cardinality(FeaturePlaces(t)) = 1
       /\ InWindow(u) /\ Monotone(u)
       /\ Matching(u) = {}
       /\ Cardinality(FeaturePlaces(u)) = 1

(***************************************************************************)
(* Vocabulary of the properties about the storage.                         *)
(***************************************************************************)
\* the request for the table fails in transport
TransportFailure(table) == feed.source = "azure" /\ table \in feed.unreachable

\* C26: a transport failure is told apart from 'not found': the existence
\* check of a table out of reach does not answer 'does not exist', the
\* start-up never warns that such a table is not found, and it never goes
\* on past such a table to open the listener.
C26_TransportDistinct ==
  \A table \in TableSet :
    TransportFailure(table) =>
      /\ Past(table) => ProviderExists(table)
      /\ table \notin warned
      /\ ~listening

(***************************************************************************)
(* Vocabulary of the properties about the frontend.                        *)
(***************************************************************************)
\* a fetch in flight has completed with this step
Completed == client.pending \ client'.pending

\* the datetime of the answer is earlier than the datetime of the vehicle
\* data on the map; YYYY-MM-DDTHH:MM:SS strings are in the order of time
Earlier(datetimeStr) ==
  /\ client.dataDatetime # Null
  /\ StrLess(datetimeStr, client.dataDatetime.datetime)

\* C29: the answers to the fetches of the frontend arrive in any order; an
\* answer whose datetime is earlier than the datetime of the last answer
\* applied is discarded and leaves the vehicle data as it is, so the
\* datetime of the vehicle data on the map never decreases.
C29_ShownNeverOlder ==
  [][ /\ client.dataDatetime # Null =>
           /\ client'.dataDatetime # Null
           /\ StrLE(client.dataDatetime.datetime, client'.dataDatetime.datetime)
      /\ \A t \in Completed :
           Earlier(ClientDatetime(t)) =>
             /\ client'.vehicleData = client.vehicleData
             /\ client'.dataDatetime = client.dataDatetime
             /\ ClientDatetime(t) \in client'.ignored ]_vars

\* the answer for the latest time arrived first and the two answers for
\* the earlier times were discarded after it
C29_Witness ==
  /\ Cardinality(client.ignored) >= 2
  /\ client.pending = {}
  /\ client.dataDatetime # Null
  /\ \A datetimeStr \in client.ignored :
       StrLess(datetimeStr, client.dataDatetime.datetime)
  /\ client.vehicleData # << >>

\* the keys under which markersRef holds a marker are the keys of the
\* vehicle data, and every marker stands at the position of the feature
\* under its key
MarkerKeysFollowData ==
  ~client.effectPending =>
    /\ DOMAIN client.markers = ObjectKeys(client.vehicleData)
    /\ \A key \in DOMAIN client.markers :
         client.markers[key].latlng
           = NewMarker(FeatureAt(client.vehicleData, key)).latlng

\* a marker made for one trip, with the icon of its route, shows another
\* trip
MarkerPassedOn ==
  \E key \in DOMAIN client.markers :
    /\ client.markers[key].trip # client.markers[key].popup.trip_id
    /\ client.markers[key].icon # client.markers[key].popup.route.route_type

\* C30: after every run of the update effect of VehicleMarkers the trips
\* that have a marker on the map are the keys of the vehicle data: every
\* marker is the marker of the trip its key names, and it shows the feature
\* of that trip.
C30_MarkersFollowData ==
  ~client.effectPending =>
    /\ {client.markers[key].trip : key \in DOMAIN client.markers}
         = ObjectKeys(client.vehicleData)
    /\ \A key \in DOMAIN client.markers :
         /\ client.markers[key].trip = key
         /\ client.markers[key].popup.trip_id = key

====
